---- MODULE Spec2Model ----
(***************************************************************************)
(* Model of the scraping controller of the Nobat.ir doctor scraper         *)
(* (src/extension/background.js) and of the export boundary                *)
(* (src/extension/csv-export.js).                                          *)
(*                                                                         *)
(* The service worker is single threaded: one step of the model is one     *)
(* task of the event loop, i.e. the arrival of a message or the completion *)
(* of one browser primitive, together with all the synchronous code and    *)
(* all the already-resolved awaits (await configReady, await of an async   *)
(* function that returns without calling the browser) that follow it, up   *)
(* to the next call of a browser primitive.  Browser primitives complete   *)
(* in any order.                                                           *)
(*                                                                         *)
(* The calls made in a row by ensureScraperTab (updateTab or createTab,     *)
(* setTabAutoDiscardable, waitForTabLoad) and by scrapeDoctorProfile (the   *)
(* message, the injection, the message again) are answered in one step,    *)
(* which ends with the session as the calls leave it.  A write to          *)
(* chrome.storage takes effect when it is issued.  getStatus reads the     *)
(* persisted status and writes nothing, so it has no step here.            *)
(***************************************************************************)
EXTENDS Integers, Sequences, FiniteSets, TLC

\* ------------------------------------------------------------------ bounds
MaxStarts == 2          \* startScraping requests issued in one behaviour
MaxStops == 2           \* stopScraping requests issued in one behaviour
MaxConfigs == 1         \* updateConfig requests issued in one behaviour
MaxTabCloses == 1       \* times the user closes the scraper tab
MaxEvents == 3          \* requests and tab closes, together, in one behaviour
LiveEvents == 2         \* the same, in the behaviours checked for termination
MaxErrResults == 1      \* records appended while the error list is exercised
MaxRaw == 20            \* the largest integer a raw config field holds
MaxText == 3            \* code units of a content given to downloadCsv
MaxQueries == 2         \* getStatus requests issued in one behaviour
MaxChars == 4           \* code units of a string given to normaliseText
MaxApplications == 2    \* times normaliseText is applied to its own result
MaxCodeLen == 6         \* code units of a text given to extractCodeToken
MaxPhones == 3          \* phone texts given to toNormalisedPhoneList
MaxOffices == 2         \* candidate offices given to normaliseOfficeList
MaxOfficeValues == 2    \* addresses, and phones, of a candidate office
MaxLinks == 3           \* links the listing page answers in the link claims
MaxCsvRows == 2         \* records given to convertToCsv in the column claims
MaxCsvOffices == 2      \* offices of such a record
MaxAttemptRetries == 2  \* maxRetries in the attempt claims
MaxDelayUpdates == 1    \* Config updates during a call in the attempt claims
MaxEnsures == 3         \* calls of ensureScraperTab in the session claims
MaxCards == 14          \* doctor cards on the listing page

\* ------------------------------------------------------- program constants
DefaultDelayMs == 2500
DefaultMaxRetries == 2
MAX_RETRY_LIMIT == 5
NoTab == 0              \* state.scraperTabId = null
ScraperTab == 1         \* the id of a tab created by createTab

NoError == "null"

Max(a, b) == IF a >= b THEN a ELSE b
Min(a, b) == IF a <= b THEN a ELSE b

\* ------------------------------------------------------------------- URLs
\* A link as the page reports it: scheme, host, path and fragment.
Link(scheme, host, path, frag) ==
    [scheme |-> scheme, host |-> host, path |-> path, frag |-> frag]

LinkA == Link("https", "nobat.ir", "/dr/a", "")
LinkAHttpFrag == Link("http", "nobat.ir", "/dr/a", "top")
LinkB == Link("https", "www.nobat.ir", "/dr/b", "")
LinkForeign == Link("https", "example.org", "/dr/a", "")

\* Values that stand where a URL may stand: null, and the sentinel keys of
\* the error list.
NoUrl == Link("", "", "null", "")
DownloadKey == Link("", "", "download", "")
GlobalKey == Link("", "", "global", "")
FinaliseKey == Link("", "", "finalise", "")

IsNobatHost(host) == host \in {"nobat.ir", "www.nobat.ir"}

\* The schemes the URL parser calls special: only they require a host, and
\* the protocol setter never turns another scheme into one of them.
SpecialSchemes == {"http", "https", "ftp", "ws", "wss", "file"}

\* new URL(rawUrl, "https://nobat.ir/"): null (<<>>) where it throws (a
\* special scheme without a host); a link without a scheme is relative and
\* takes the scheme and host of the base.
ParseUrl(rawUrl) ==
    IF rawUrl.scheme = ""
    THEN <<[rawUrl EXCEPT !.scheme = "https", !.host = "nobat.ir"]>>
    ELSE IF rawUrl.scheme \in SpecialSchemes /\ rawUrl.host = ""
    THEN <<>>
    ELSE <<rawUrl>>

\* url.protocol = "https:", which leaves a scheme that is not special alone.
SetProtocolHttps(url) ==
    IF url.scheme \in SpecialSchemes THEN [url EXCEPT !.scheme = "https"] ELSE url

\* normaliseDoctorProfileUrl: null (<<>>) for a link that does not parse or
\* has a foreign host, else the link with the scheme set to https and the
\* fragment dropped.
normaliseDoctorProfileUrl(rawUrl) ==
    LET url == ParseUrl(rawUrl)
    IN  IF url = <<>> \/ ~IsNobatHost(url[1].host)
        THEN <<>>
        ELSE <<[SetProtocolHttps(url[1]) EXCEPT !.frag = ""]>>

\* The forEach of getDoctorLinksFromTab: normalise, drop nulls, keep the
\* first occurrence of every normalised link.
RECURSIVE UniqueLinks(_, _)
UniqueLinks(rawLinks, unique) ==
    IF rawLinks = <<>>
    THEN unique
    ELSE LET normalised == normaliseDoctorProfileUrl(Head(rawLinks))
             seen == {unique[i] : i \in 1..Len(unique)}
         IN  UniqueLinks(Tail(rawLinks),
                         IF normalised # <<>> /\ normalised[1] \notin seen
                         THEN Append(unique, normalised[1])
                         ELSE unique)

\* What the listing page can answer to GET_DOCTOR_LINKS.
PageLinks ==
    { <<>>,
      <<LinkForeign, LinkA, LinkAHttpFrag, LinkB>> }

\* ----------------------------------------------------------------- config
\* A config field as a request or the storage carries it: absent, a value
\* that Number() turns into NaN (a word, an object), a value that Number()
\* turns into 0 although it is no number (null, the empty string), an
\* infinite number, an integer, or a fraction given in tenths.
Undefined == [kind |-> "undefined", v |-> 0]
NaNValue == [kind |-> "nan", v |-> 0]
NullValue == [kind |-> "null", v |-> 0]
Infinite == [kind |-> "infinite", v |-> 0]
Num(n) == [kind |-> "num", v |-> n]
Frac(t) == [kind |-> "frac", v |-> t]

\* Number(value), in tenths, and whether it is finite.
ToNumber(value) ==
    CASE value.kind \in {"undefined", "nan", "infinite"} ->
             [finite |-> FALSE, tenths |-> 0]
      [] value.kind = "null" -> [finite |-> TRUE, tenths |-> 0]
      [] value.kind = "num" -> [finite |-> TRUE, tenths |-> 10 * value.v]
      [] value.kind = "frac" -> [finite |-> TRUE, tenths |-> value.v]

\* Math.round of a number given in tenths: the nearest integer, a half
\* going up.
MathRound(tenths) == (tenths + 5) \div 10

\* ensureDelay / ensureRetries.
ensureDelay(value, fallback) ==
    LET numeric == ToNumber(value)
    IN  IF ~numeric.finite \/ numeric.tenths < 0
        THEN Max(0, MathRound(10 * fallback))
        ELSE Max(0, MathRound(numeric.tenths))

ensureRetries(value, fallback) ==
    LET numeric == ToNumber(value)
    IN  IF ~numeric.finite \/ numeric.tenths < 0
        THEN Max(0, MathRound(10 * fallback))
        ELSE Min(MAX_RETRY_LIMIT, Max(0, MathRound(numeric.tenths)))

NoOptions == [delayMs |-> Undefined, maxRetries |-> Undefined]

\* The payloads of startScraping and of updateConfig requests.
StartInputs ==
    { NoOptions,
      [delayMs |-> Num(0), maxRetries |-> Num(0)] }

ConfigInputs ==
    { [delayMs |-> Num(0), maxRetries |-> Num(0)],
      [delayMs |-> Undefined, maxRetries |-> Num(1)] }

\* ------------------------------------------------------------------ state
NoRetry == [attempt |-> 0, total |-> 0, url |-> NoUrl]
NoDoctor == [url |-> NoUrl, failed |-> FALSE]

VARIABLES
    state,      \* the controller's state object (background.js:34)
    stored,     \* chrome.storage.local: the persisted Config record
    sh,         \* handleStartScraping activations, by request number
    wk,         \* processQueue activations, one per accepted start
    ph,         \* handleStopScraping activations, by request number
    ch,         \* handleUpdateConfig activations, by request number
    closed      \* how often the user has closed the scraper tab

vars == <<state, stored, sh, wk, ph, ch, closed>>

\* The state object after module evaluation and loadPersistedConfig.
InitialState(delay, retries) ==
    [ isScraping |-> FALSE,
      queue |-> <<>>,
      results |-> <<>>,
      currentIndex |-> 0,
      scraperTabId |-> NoTab,
      delayMs |-> delay,
      maxRetries |-> retries,
      errors |-> <<>>,
      lastDoctor |-> NoDoctor,
      retrying |-> NoRetry,
      stopRequested |-> FALSE,
      visited |-> {} ]

resetState(st) ==
    [st EXCEPT !.isScraping = FALSE,
               !.queue = <<>>,
               !.results = <<>>,
               !.currentIndex = 0,
               !.scraperTabId = NoTab,
               !.errors = <<>>,
               !.lastDoctor = NoDoctor,
               !.retrying = NoRetry,
               !.stopRequested = FALSE,
               !.visited = {}]

clearError(st, url) ==
    [st EXCEPT !.errors = SelectSeq(@, LAMBDA e : e.url # url)]

\* A recordError that appends without removing the entry of the key.
recordErrorAppend(st, url, message) ==
    IF message = ""
    THEN clearError(st, url)
    ELSE [st EXCEPT !.errors = Append(@, [url |-> url, message |-> message])]

recordError(st, url, message) ==
    LET cleared == clearError(st, url)
    IN  IF message = ""
        THEN cleared
        ELSE [cleared EXCEPT !.errors = Append(@, [url |-> url, message |-> message])]

\* An applyConfig that also resets the job.
applyConfigReset(st, partialConfig) ==
    [resetState(st) EXCEPT
        !.delayMs = ensureDelay(partialConfig.delayMs, st.delayMs),
        !.maxRetries = ensureRetries(partialConfig.maxRetries, st.maxRetries)]

\* applyConfig up to its storage write: the validated fields.
applyConfig(st, partialConfig) ==
    [st EXCEPT
        !.delayMs = IF partialConfig.delayMs # Undefined
                    THEN ensureDelay(partialConfig.delayMs, st.delayMs)
                    ELSE st.delayMs,
        !.maxRetries = IF partialConfig.maxRetries # Undefined
                       THEN ensureRetries(partialConfig.maxRetries, st.maxRetries)
                       ELSE st.maxRetries]

ConfigOf(st) == [delayMs |-> st.delayMs, maxRetries |-> st.maxRetries]

\* A teardown that resets the whole state object.
cleanupScraperTabReset(st) == resetState(st)

\* cleanupScraperTab up to its call of removeTab: forget the tab id.
cleanupScraperTab(st) == [st EXCEPT !.scraperTabId = NoTab]

\* cleanupScraperTab calls removeTab (and so suspends) only for a known tab.
CleanupSuspends(st) == st.scraperTabId # NoTab

\* ---------------------------------------------------------- export (CSV)
\* A record of results: the profile URL, the scraped name (the other data
\* fields travel with it) and the error.
DoctorRecord(url, name, error) == [url |-> url, name |-> name, error |-> error]

\* normaliseDoctorData(data, url) for the data of a scraped page, and for
\* the empty data of the placeholder.
normaliseDoctorData(name, url) == [url |-> url, name |-> name]

BASE_HEADERS ==
    <<"Profile URL", "Name", "Specialty", "Code", "City", "Addresses",
      "Phones", "Error">>

\* convertToCsv: the header line, then one line per row (in the model a
\* line is the sequence of its fields; null prints as the empty string, and
\* the fields the model does not carry are empty).
convertToCsv(rows) ==
    <<BASE_HEADERS>> \o
    [i \in 1..Len(rows) |->
        <<rows[i].url, rows[i].name, "", "", "", "", "",
          IF rows[i].error = NoError THEN "" ELSE rows[i].error>>]

\* ------------------------------------------------------------ processQueue
\* One activation of processQueue: where it is suspended (pc), its locals
\* (url, attempt, attempts of scrapeDoctorProfileWithRetries; partial, rows
\* of finaliseScraping), and facts kept for the properties: atExit and
\* complete (the results when the loop was left, and whether the cursor had
\* reached the end of the queue), stopAcked (a stopScraping request was
\* answered stopping while this activation was in the loop) and lateEntry
\* (it began to scrape a queue entry after that answer).
NoWorker ==
    [ pc |-> "none", url |-> NoUrl, attempt |-> 0, attempts |-> 0,
      partial |-> FALSE, rows |-> <<>>,
      atExit |-> <<>>, complete |-> FALSE,
      stopAcked |-> FALSE, lateEntry |-> FALSE ]

LoopPcs == {"ensure", "extract", "retrydelay", "skipstatus", "status", "delay"}
InFlightPcs == {"ensure", "extract", "retrydelay"}
FinalisePcs == {"fcleanup", "fempty", "download", "fstatus"}

\* A finished activation keeps nothing.
DoneWorker == [NoWorker EXCEPT !.pc = "done"]

ScrapeError == "No data was returned from the doctor profile page."
DownloadError == "Failed to download CSV"
ScrapedName == "Dr"

\* finaliseScraping after its await of cleanupScraperTab: nothing to export
\* (publish and, after the publication, reset), or the snapshot of the
\* results and the call of downloadCsv (blob URL first).
finaliseAfterCleanup(st, w) ==
    IF Len(st.results) = 0
    THEN [st |-> st, w |-> [w EXCEPT !.pc = "fempty"]]
    ELSE [st |-> st, w |-> [w EXCEPT !.pc = "download", !.rows = st.results]]

\* The end of processQueue (lines 897-902) and finaliseScraping up to its
\* first suspension.
finaliseScraping(st, w) ==
    LET w1 == [w EXCEPT !.partial = st.stopRequested,
                        !.atExit = st.results,
                        !.complete = st.currentIndex >= Len(st.queue)]
        st1 == [st EXCEPT !.isScraping = FALSE, !.stopRequested = FALSE]
    IN  IF CleanupSuspends(st1)
        THEN [st |-> cleanupScraperTab(st1), w |-> [w1 EXCEPT !.pc = "fcleanup"]]
        ELSE finaliseAfterCleanup(st1, w1)

\* scrapeDoctorProfileWithRetries(url) up to the first call of a browser
\* primitive in ensureScraperTab.
scrapeDoctorProfileWithRetries(st, w, url) ==
    [st |-> [st EXCEPT !.retrying = NoRetry],
     w |-> [w EXCEPT !.pc = "ensure", !.url = url, !.attempt = 1,
                     !.attempts = Max(0, st.maxRetries) + 1,
                     !.lateEntry = @ \/ w.stopAcked]]

\* A loop head that does not consult visited.
processQueueNoSkip(st, w) ==
    IF st.isScraping /\ st.currentIndex < Len(st.queue) /\ ~st.stopRequested
    THEN LET url == st.queue[st.currentIndex + 1]
         IN  scrapeDoctorProfileWithRetries(
                 [st EXCEPT !.visited = @ \cup {url}], w, url)
    ELSE finaliseScraping(st, w)

\* The head of the while loop of processQueue, up to the next suspension.
processQueue(st, w) ==
    IF st.isScraping /\ st.currentIndex < Len(st.queue) /\ ~st.stopRequested
    THEN LET url == st.queue[st.currentIndex + 1]
         IN  IF url \in st.visited
             THEN [st |-> [st EXCEPT !.currentIndex = @ + 1],
                   w |-> [w EXCEPT !.pc = "skipstatus"]]
             ELSE scrapeDoctorProfileWithRetries(
                      [st EXCEPT !.visited = @ \cup {url}], w, url)
    ELSE finaliseScraping(st, w)

\* Lines 882-886: advance the cursor and publish the progress.
AfterProfile(st, w) ==
    [st |-> [st EXCEPT !.currentIndex = @ + 1], w |-> [w EXCEPT !.pc = "status"]]

\* Lines 852-858: the profile was scraped.
ProfileScraped(st, w) ==
    LET data == normaliseDoctorData(ScrapedName, w.url)
        st1 == clearError([st EXCEPT !.retrying = NoRetry], w.url)
    IN  AfterProfile(
            [st1 EXCEPT !.results = Append(@, DoctorRecord(data.url, data.name, NoError)),
                        !.lastDoctor = [url |-> data.url, failed |-> FALSE]],
            w)

\* Lines 859-880: the retries are exhausted, the placeholder is recorded.
ProfileFailed(st, w, message) ==
    LET fallbackData == normaliseDoctorData("", w.url)
        st1 == recordError([st EXCEPT !.retrying = NoRetry], w.url, message)
    IN  AfterProfile(
            [st1 EXCEPT !.results = Append(@, DoctorRecord(fallbackData.url,
                                                           fallbackData.name, message)),
                        !.lastDoctor = [url |-> fallbackData.url, failed |-> TRUE]],
            w)

\* A catch that gives up one attempt late (attempt > attempts).
AttemptFailedLate(st, w, message) ==
    IF w.attempt > w.attempts
    THEN ProfileFailed(st, w, message)
    ELSE [st |-> st, w |-> [w EXCEPT !.pc = "retrydelay"]]

\* A catch that does not count the failed attempt.
AttemptFailedUncounted(st, w, message) ==
    IF w.attempt >= w.attempts
    THEN ProfileFailed(st, w, message)
    ELSE [st |-> st, w |-> [w EXCEPT !.pc = "retrydelay", !.attempt = @ - 1]]

\* The catch of scrapeDoctorProfileWithRetries: give up on the last attempt,
\* else wait before the next one.
AttemptFailed(st, w, message) ==
    IF w.attempt >= w.attempts
    THEN ProfileFailed(st, w, message)
    ELSE [st |-> st, w |-> [w EXCEPT !.pc = "retrydelay"]]

\* --------------------------------------------------------------- requests
\* The job state and the Config a request can touch.
JobOf(st) ==
    [queue |-> st.queue, cursor |-> st.currentIndex, results |-> st.results,
     visited |-> st.visited, errors |-> st.errors, running |-> st.isScraping]

\* One activation of handleStartScraping: where it is suspended, its
\* payload, its answer, and (for the properties) whether one of its steps
\* changed the job state or the Config (in memory or persisted).
NoStart ==
    [ pc |-> "new", options |-> NoOptions, reply |-> "none",
      wroteJob |-> FALSE, wroteConfig |-> FALSE ]

\* One activation of handleStopScraping: where it is suspended, its answer,
\* and (for the properties) whether its resetState discarded records that a
\* finalising run had still to hand to the export.
NoStop == [pc |-> "new", reply |-> "none", dropped |-> FALSE]

NoConfig == [delayMs |-> -1, maxRetries |-> -1]
NoUpdate == [pc |-> "new", reply |-> NoConfig]

Starts == 1..MaxStarts
Stops == 1..MaxStops
Configs == 1..MaxConfigs

\* Requests are numbered in the order of their arrival.
Issued(h) == Cardinality({n \in DOMAIN h : h[n].pc # "new"})
Events == Issued(sh) + Issued(ph) + Issued(ch) + closed
NextRequest(h, n) ==
    /\ h[n].pc = "new"
    /\ \A m \in 1..(n - 1) : h[m].pc # "new"
    /\ Events < MaxEvents

Init ==
    /\ state = InitialState(DefaultDelayMs, DefaultMaxRetries)
    /\ stored = [delayMs |-> DefaultDelayMs, maxRetries |-> DefaultMaxRetries]
    /\ sh = [i \in Starts |-> NoStart]
    /\ wk = [i \in Starts |-> NoWorker]
    /\ ph = [j \in Stops |-> NoStop]
    /\ ch = [k \in Configs |-> NoUpdate]
    /\ closed = 0

\* A step of start request i to the state st (persisting cfg), suspended at
\* pc or answered with reply.
StartStep(i, st, cfg, pc, reply) ==
    /\ state' = st
    /\ stored' = cfg
    /\ sh' = [sh EXCEPT ![i].pc = pc,
                        ![i].reply = reply,
                        ![i].options = IF pc \in {"links", "done"} THEN NoOptions ELSE @,
                        ![i].wroteJob = @ \/ JobOf(st) # JobOf(state),
                        ![i].wroteConfig =
                            @ \/ ConfigOf(st) # ConfigOf(state) \/ cfg # stored]

\* handleStartScraping, lines 915-922: refuse when running, else ask for
\* the active tab.
StartRequest(i) ==
    /\ NextRequest(sh, i)
    /\ \E options \in StartInputs :
          IF state.isScraping
          THEN /\ state' = state
               /\ stored' = stored
               /\ sh' = [sh EXCEPT ![i].pc = "done", ![i].reply = "already-running"]
          ELSE /\ state' = state
               /\ stored' = stored
               /\ sh' = [sh EXCEPT ![i].pc = "query", ![i].options = options]
    /\ UNCHANGED <<wk, ph, ch, closed>>

\* Lines 936-938: applyConfig with persist (the write of the Config record
\* is issued with the assignment), then GET_DOCTOR_LINKS is sent.
StartApplyConfig(i, st) ==
    LET st1 == applyConfig(st, sh[i].options)
    IN  StartStep(i, st1, ConfigOf(st1), "links", "none")

\* Lines 922-934: queryActiveTab answered.
QueryDone(i) ==
    /\ sh[i].pc = "query"
    /\ \E tab \in {"none", "foreign", "list"} :
          IF tab # "list"
          THEN StartStep(i, state, stored, "done",
                         IF tab = "none" THEN "error: no active tab"
                                         ELSE "error: not a nobat.ir page")
          ELSE IF CleanupSuspends(state)
               THEN StartStep(i, cleanupScraperTab(state), stored, "cleanup", "none")
               ELSE StartApplyConfig(i, state)
    /\ UNCHANGED <<wk, ph, ch, closed>>

\* Line 934: removeTab answered (its error is swallowed).
StartCleanupDone(i) ==
    /\ sh[i].pc = "cleanup"
    /\ StartApplyConfig(i, state)
    /\ UNCHANGED <<wk, ph, ch, closed>>

\* Lines 951-966: the run is installed and its first status published.
InstallRun(st, links) ==
    [st EXCEPT !.queue = links,
               !.results = <<>>,
               !.currentIndex = 0,
               !.errors = <<>>,
               !.lastDoctor = NoDoctor,
               !.retrying = NoRetry,
               !.stopRequested = FALSE,
               !.visited = {},
               !.isScraping = TRUE]

\* Lines 938-966: getDoctorLinksFromTab answered, with an error or with the
\* links of the page.  Without links the state is reset and the no-links
\* status published (the answer follows that publication, which changes
\* nothing); with links the run is installed.
LinksDone(i) ==
    /\ sh[i].pc = "links"
    /\ \/ StartStep(i, state, stored, "done", "error: no links answer")
       \/ \E rawLinks \in PageLinks :
             LET links == UniqueLinks(rawLinks, <<>>)
             IN  IF Len(links) = 0
                 THEN StartStep(i, resetState(state), stored, "done", "no-links")
                 ELSE /\ state' = InstallRun(state, links)
                      /\ stored' = stored
                      /\ sh' = [sh EXCEPT ![i].pc = "status", ![i].wroteJob = TRUE]
    /\ UNCHANGED <<wk, ph, ch, closed>>

\* Lines 961-981: the first status is published; processQueue is called and
\* runs to its first suspension; the request is answered.
StartStatusDone(i) ==
    /\ sh[i].pc = "status"
    /\ LET r == processQueue(state, NoWorker)
       IN  /\ StartStep(i, r.st, stored, "done", "started")
           /\ wk' = [wk EXCEPT ![i] = r.w]
    /\ UNCHANGED <<ph, ch, closed>>

\* handleStopScraping, lines 984-998.  Idle: tear the session down, reset,
\* publish, answer idle.  Running: raise the flag, publish, answer stopping.
\* The answer follows a publication that changes nothing, so it is given
\* with the step that issues the publication.
StopIdle(j, st) ==
    /\ state' = resetState(st)
    /\ ph' = [ph EXCEPT ![j].pc = "done", ![j].reply = "idle",
                        ![j].dropped = /\ Len(st.results) > 0
                                       /\ \E i \in Starts : wk[i].pc = "fcleanup"]
    /\ wk' = wk

StopRequest(j) ==
    /\ NextRequest(ph, j)
    /\ IF ~state.isScraping
       THEN IF CleanupSuspends(state)
            THEN /\ state' = cleanupScraperTab(state)
                 /\ ph' = [ph EXCEPT ![j].pc = "cleanup"]
                 /\ wk' = wk
            ELSE StopIdle(j, state)
       ELSE /\ state' = [state EXCEPT !.stopRequested = TRUE]
            /\ ph' = [ph EXCEPT ![j].pc = "done", ![j].reply = "stopping"]
            /\ wk' = [i \in Starts |->
                        IF wk[i].pc \in LoopPcs
                        THEN [wk[i] EXCEPT !.stopAcked = TRUE]
                        ELSE wk[i]]
    /\ UNCHANGED <<stored, sh, ch, closed>>

\* Lines 988-991: removeTab answered.
StopCleanupDone(j) ==
    /\ ph[j].pc = "cleanup"
    /\ StopIdle(j, state)
    /\ UNCHANGED <<stored, sh, ch, closed>>

\* handleUpdateConfig, lines 1027-1028: applyConfig with persist (the write
\* of the Config record is issued with the assignment), then updateStatus.
ConfigRequest(k) ==
    /\ NextRequest(ch, k)
    /\ \E config \in ConfigInputs :
          /\ state' = applyConfig(state, config)
          /\ stored' = ConfigOf(state')
    /\ ch' = [ch EXCEPT ![k].pc = "status"]
    /\ UNCHANGED <<sh, wk, ph, closed>>

\* Line 1029: the status is published, the answer is the Config in memory.
ConfigStatusDone(k) ==
    /\ ch[k].pc = "status"
    /\ ch' = [ch EXCEPT ![k].pc = "done", ![k].reply = ConfigOf(state)]
    /\ UNCHANGED <<state, stored, sh, wk, ph, closed>>

\* chrome.tabs.onRemoved, lines 1088-1091: the scraper tab was closed.
TabRemoved ==
    /\ closed < MaxTabCloses
    /\ Events < MaxEvents
    /\ state.scraperTabId # NoTab
    /\ state' = [state EXCEPT !.scraperTabId = NoTab]
    /\ closed' = closed + 1
    /\ UNCHANGED <<stored, sh, wk, ph, ch>>

\* ----------------------------------------------------- steps of processQueue
WorkerStep(i, r) ==
    /\ state' = r.st
    /\ wk' = [wk EXCEPT ![i] = r.w]

\* scrapeDoctorProfile, line 698: ensureScraperTab answered.  The session is
\* ready (reused or created), or the attempt fails with the session torn
\* down or left as createTab set it.
EnsureTabDone(i) ==
    /\ wk[i].pc = "ensure"
    /\ \/ WorkerStep(i, [st |-> [state EXCEPT !.scraperTabId = ScraperTab],
                         w |-> [wk[i] EXCEPT !.pc = "extract"]])
       \/ \E tab \in {NoTab, ScraperTab} :
             WorkerStep(i, AttemptFailed([state EXCEPT !.scraperTabId = tab],
                                         wk[i], ScrapeError))
    /\ UNCHANGED <<stored, sh, ph, ch, closed>>

\* scrapeDoctorProfile, lines 700-720: SCRAPE_DOCTOR_DETAILS answered (after
\* at most one re-injection), with the data or with an error; "No tab with
\* id" also forgets the session (sendMessageToTab, line 391).
ExtractDone(i) ==
    /\ wk[i].pc = "extract"
    /\ \/ WorkerStep(i, ProfileScraped(state, wk[i]))
       \/ WorkerStep(i, AttemptFailed(state, wk[i], ScrapeError))
       \/ WorkerStep(i, AttemptFailed(cleanupScraperTab(state), wk[i], ScrapeError))
    /\ UNCHANGED <<stored, sh, ph, ch, closed>>

\* Lines 744 and 726-735: the wait before the next attempt is over; the
\* retry is announced and, once the announcement is published (which changes
\* nothing), the next attempt begins.
RetryDelayDone(i) ==
    /\ wk[i].pc = "retrydelay"
    /\ LET attempt == wk[i].attempt + 1
       IN  WorkerStep(i,
             [st |-> [state EXCEPT !.retrying = [attempt |-> attempt,
                                                 total |-> wk[i].attempts,
                                                 url |-> wk[i].url]],
              w |-> [wk[i] EXCEPT !.pc = "ensure", !.attempt = attempt]])
    /\ UNCHANGED <<stored, sh, ph, ch, closed>>

\* Lines 884-895: the progress is published; leave the loop, wait, or go on.
StatusDone(i) ==
    /\ wk[i].pc = "status"
    /\ WorkerStep(i,
          IF state.stopRequested \/ state.currentIndex >= Len(state.queue)
          THEN finaliseScraping(state, wk[i])
          ELSE IF state.delayMs > 0
               THEN [st |-> state, w |-> [wk[i] EXCEPT !.pc = "delay"]]
               ELSE processQueue(state, wk[i]))
    /\ UNCHANGED <<stored, sh, ph, ch, closed>>

\* Line 893: the delay between two profiles is over.
DelayDone(i) ==
    /\ wk[i].pc = "delay"
    /\ WorkerStep(i, processQueue(state, wk[i]))
    /\ UNCHANGED <<stored, sh, ph, ch, closed>>

\* Lines 843-846: the skip status is published.
SkipStatusDone(i) ==
    /\ wk[i].pc = "skipstatus"
    /\ WorkerStep(i, processQueue(state, wk[i]))
    /\ UNCHANGED <<stored, sh, ph, ch, closed>>

\* finaliseScraping, line 756: removeTab answered.
FinaliseCleanupDone(i) ==
    /\ wk[i].pc = "fcleanup"
    /\ WorkerStep(i, finaliseAfterCleanup(state, wk[i]))
    /\ UNCHANGED <<stored, sh, ph, ch, closed>>

\* finaliseScraping, lines 759-769: nothing was exported; reset.
EmptyStatusDone(i) ==
    /\ wk[i].pc = "fempty"
    /\ WorkerStep(i, [st |-> resetState(state), w |-> DoneWorker])
    /\ UNCHANGED <<stored, sh, ph, ch, closed>>

\* finaliseScraping, lines 772-789: the file handed to downloadCsv by an
\* activation suspended in it.
CsvFile(w) ==
    [ prefix |-> IF w.partial THEN "nobat-doctors-partial" ELSE "nobat-doctors",
      text |-> convertToCsv(w.rows) ]

\* downloadCsv, lines 232-242, and finaliseScraping, lines 788-807: the
\* blob URL download succeeded, or it failed and the data URL download
\* succeeded, or both failed and the failure is recorded under "download".
DownloadDone(i) ==
    /\ wk[i].pc = "download"
    /\ \/ WorkerStep(i, [st |-> state, w |-> [wk[i] EXCEPT !.pc = "fstatus"]])
       \/ WorkerStep(i, [st |-> recordError(state, DownloadKey, DownloadError),
                         w |-> [wk[i] EXCEPT !.pc = "fstatus"]])
    /\ UNCHANGED <<stored, sh, ph, ch, closed>>

\* finaliseScraping, line 810: the final status is published; reset.
FinaliseStatusDone(i) ==
    /\ wk[i].pc = "fstatus"
    /\ WorkerStep(i, [st |-> resetState(state), w |-> DoneWorker])
    /\ UNCHANGED <<stored, sh, ph, ch, closed>>

\* ------------------------------------------------------------ specification
Next ==
    \/ \E i \in Starts : StartRequest(i)
    \/ \E i \in Starts : QueryDone(i)
    \/ \E i \in Starts : StartCleanupDone(i)
    \/ \E i \in Starts : LinksDone(i)
    \/ \E i \in Starts : StartStatusDone(i)
    \/ \E j \in Stops : StopRequest(j)
    \/ \E j \in Stops : StopCleanupDone(j)
    \/ \E k \in Configs : ConfigRequest(k)
    \/ \E k \in Configs : ConfigStatusDone(k)
    \/ TabRemoved
    \/ \E i \in Starts : EnsureTabDone(i)
    \/ \E i \in Starts : ExtractDone(i)
    \/ \E i \in Starts : RetryDelayDone(i)
    \/ \E i \in Starts : StatusDone(i)
    \/ \E i \in Starts : DelayDone(i)
    \/ \E i \in Starts : SkipStatusDone(i)
    \/ \E i \in Starts : FinaliseCleanupDone(i)
    \/ \E i \in Starts : EmptyStatusDone(i)
    \/ \E i \in Starts : DownloadDone(i)
    \/ \E i \in Starts : FinaliseStatusDone(i)

Spec == Init /\ [][Next]_vars

\* The runs of at most LiveEvents requests and tab closes in which every
\* call of a browser primitive is answered, with a result or with an error:
\* a step of a suspended handler or activation is eventually taken.  (With
\* two events a stopScraping request that finds the controller idle finds no
\* session to tear down, so StopCleanupDone has no step here.)
LiveRequest == Events < LiveEvents
LiveStartRequest(i) == LiveRequest /\ StartRequest(i)
LiveStopRequest(j) == LiveRequest /\ StopRequest(j)
LiveConfigRequest(k) == LiveRequest /\ ConfigRequest(k)
LiveTabRemoved == LiveRequest /\ TabRemoved

Completions ==
    \/ \E i \in Starts : QueryDone(i)
    \/ \E i \in Starts : StartCleanupDone(i)
    \/ \E i \in Starts : LinksDone(i)
    \/ \E i \in Starts : StartStatusDone(i)
    \/ \E k \in Configs : ConfigStatusDone(k)
    \/ \E i \in Starts : EnsureTabDone(i)
    \/ \E i \in Starts : ExtractDone(i)
    \/ \E i \in Starts : RetryDelayDone(i)
    \/ \E i \in Starts : StatusDone(i)
    \/ \E i \in Starts : DelayDone(i)
    \/ \E i \in Starts : SkipStatusDone(i)
    \/ \E i \in Starts : FinaliseCleanupDone(i)
    \/ \E i \in Starts : EmptyStatusDone(i)
    \/ \E i \in Starts : DownloadDone(i)
    \/ \E i \in Starts : FinaliseStatusDone(i)

FairNext ==
    \/ \E i \in Starts : LiveStartRequest(i)
    \/ \E j \in Stops : LiveStopRequest(j)
    \/ \E k \in Configs : LiveConfigRequest(k)
    \/ LiveTabRemoved
    \/ Completions

FairSpec == Init /\ [][FairNext]_vars /\ WF_vars(Completions)

\* -------------------------------------------------------------- the config
\* Every way the controller sets the Config, with raw values of every kind:
\* loadPersistedConfig on whatever the storage holds, then applyConfig with
\* persist (the call made by startScraping and by updateConfig) on whatever
\* the request carries.
RawValues ==
    {Undefined, NaNValue, NullValue, Infinite}
        \cup {Num(n) : n \in -1..MaxRaw}
        \cup {Frac(t) : t \in {-4, 4, 5, 25, 54, 55}}
RawConfigs == [delayMs : RawValues, maxRetries : RawValues]

\* The payloads of the requests: one field, or both fields with one value.
RequestConfigs ==
    {config \in RawConfigs :
        \/ config.delayMs = Undefined
        \/ config.maxRetries = Undefined
        \/ config.delayMs = config.maxRetries}

\* loadPersistedConfig, lines 247-259: the state after it, for a persisted
\* record (an absent record reads as two absent fields).
loadPersistedConfig(persisted) ==
    InitialState(ensureDelay(persisted.delayMs, DefaultDelayMs),
                 ensureRetries(persisted.maxRetries, DefaultMaxRetries))

CfgInit ==
    /\ state \in {loadPersistedConfig(persisted) : persisted \in RawConfigs}
    /\ stored = ConfigOf(state)
    /\ sh = [i \in Starts |-> NoStart]
    /\ wk = [i \in Starts |-> NoWorker]
    /\ ph = [j \in Stops |-> NoStop]
    /\ ch = [k \in Configs |-> NoUpdate]
    /\ closed = 0

CfgApply(config) ==
    /\ state' = applyConfig(state, config)
    /\ stored' = ConfigOf(state')
    /\ UNCHANGED <<sh, wk, ph, ch, closed>>

CfgNext == \E config \in RequestConfigs : CfgApply(config)

CfgSpec == CfgInit /\ [][CfgNext]_vars

\* ---------------------------------------------------------- the error list
\* Every way the controller changes state.errors, from every error list it
\* can hold: recordError and clearError with each key and message (the empty
\* message included), the success branch of processQueue, and resetState.
ErrKeys == {LinkA, LinkB, DownloadKey, GlobalKey, FinaliseKey}
ErrMessages == {"", ScrapeError, DownloadError}

ErrRecord(url, message) ==
    /\ state' = recordError(state, url, message)
    /\ UNCHANGED <<stored, sh, wk, ph, ch, closed>>

ErrClear(url) ==
    /\ state' = clearError(state, url)
    /\ UNCHANGED <<stored, sh, wk, ph, ch, closed>>

ErrScraped(url) ==
    /\ Len(state.results) < MaxErrResults
    /\ state' = ProfileScraped(state, [NoWorker EXCEPT !.url = url]).st
    /\ UNCHANGED <<stored, sh, wk, ph, ch, closed>>

ErrReset ==
    /\ state' = resetState(state)
    /\ UNCHANGED <<stored, sh, wk, ph, ch, closed>>

ErrNext ==
    \/ \E url \in ErrKeys, message \in ErrMessages : ErrRecord(url, message)
    \/ \E url \in ErrKeys : ErrClear(url)
    \/ \E url \in {LinkA, LinkB} : ErrScraped(url)
    \/ ErrReset

ErrSpec == Init /\ [][ErrNext]_vars

\* ------------------------------------------------------------- downloadCsv
\* downloadCsv on the text of a file.  A text is a sequence of UTF-16 code
\* units, a file and a URL are sequences of bytes.  In this specification wk
\* is the one activation of downloadCsv: where it is suspended, the content
\* it was given, the text it hands to both paths, the path that wrote the
\* file, the bytes written and the error raised.
Bom == 65279
Surrogates == 55296..57343

\* The code units of the contents: a, %, 4, a Persian letter, the BOM and a
\* high surrogate without its low surrogate.
CsvChars == {97, 37, 52, 1583, Bom, 55357}
CsvContents == UNION {[1..n -> CsvChars] : n \in 0..MaxText}

Utf8(c) ==
    IF c < 128 THEN <<c>>
    ELSE IF c < 2048 THEN <<192 + (c \div 64), 128 + (c % 64)>>
    ELSE <<224 + (c \div 4096), 128 + ((c \div 64) % 64), 128 + (c % 64)>>

\* new Blob([csvText]): the UTF-8 bytes of the text, a lone surrogate
\* replaced by U+FFFD.
RECURSIVE BlobBytes(_)
BlobBytes(text) ==
    IF text = <<>> THEN <<>>
    ELSE Utf8(IF Head(text) \in Surrogates THEN 65533 ELSE Head(text))
             \o BlobBytes(Tail(text))

Unreserved(b) ==
    b \in (65..90) \cup (97..122) \cup (48..57) \cup {45, 95, 46, 33, 126, 42, 39, 40, 41}
HexDigit(n) == IF n < 10 THEN 48 + n ELSE 55 + n
HexValue(b) ==
    IF b \in 48..57 THEN b - 48
    ELSE IF b \in 65..70 THEN b - 55
    ELSE IF b \in 97..102 THEN b - 87
    ELSE -1

RECURSIVE PercentEncode(_)
PercentEncode(bytes) ==
    IF bytes = <<>> THEN <<>>
    ELSE <<37, HexDigit(Head(bytes) \div 16), HexDigit(Head(bytes) % 16)>>
             \o PercentEncode(Tail(bytes))

\* An encodeURIComponent that escapes only what is not ASCII.
RECURSIVE encodeURIComponentAscii(_)
encodeURIComponentAscii(text) ==
    IF text = <<>> THEN <<>>
    ELSE (IF Head(text) < 128 THEN <<Head(text)>>
          ELSE PercentEncode(Utf8(Head(text))))
             \o encodeURIComponentAscii(Tail(text))

\* encodeURIComponent(csvText) of a text without lone surrogate (it throws a
\* URIError on the others).
URIError(text) == \E n \in 1..Len(text) : text[n] \in Surrogates
RECURSIVE encodeURIComponent(_)
encodeURIComponent(text) ==
    IF text = <<>> THEN <<>>
    ELSE (IF Unreserved(Head(text)) THEN <<Head(text)>>
          ELSE PercentEncode(Utf8(Head(text))))
             \o encodeURIComponent(Tail(text))

\* The bytes a download of the data URL with this body writes: the body,
\* percent-decoded.
RECURSIVE DataUrlBytes(_)
DataUrlBytes(body) ==
    IF body = <<>> THEN <<>>
    ELSE IF /\ Head(body) = 37
            /\ Len(body) >= 3
            /\ HexValue(body[2]) >= 0
            /\ HexValue(body[3]) >= 0
         THEN <<16 * HexValue(body[2]) + HexValue(body[3])>>
                  \o DataUrlBytes(SubSeq(body, 4, Len(body)))
         ELSE <<Head(body)>> \o DataUrlBytes(Tail(body))

ensureUtf8Bom(csvContent) ==
    IF Len(csvContent) > 0 /\ csvContent[1] = Bom
    THEN csvContent
    ELSE <<Bom>> \o csvContent

\* downloadCsv up to the download call of downloadViaBlobUrl.
downloadCsv(csvContent) ==
    [ pc |-> "blob", content |-> csvContent, csvText |-> ensureUtf8Bom(csvContent),
      blobFailed |-> FALSE, written |-> "none", file |-> <<>>, raised |-> "none" ]

CsvInit ==
    /\ state = InitialState(DefaultDelayMs, DefaultMaxRetries)
    /\ stored = ConfigOf(state)
    /\ sh = [i \in Starts |-> NoStart]
    /\ wk \in {downloadCsv(csvContent) : csvContent \in CsvContents}
    /\ ph = [j \in Stops |-> NoStop]
    /\ ch = [k \in Configs |-> NoUpdate]
    /\ closed = 0

\* downloadViaBlobUrl, lines 199-213: the file is written from the blob, or
\* the path fails (no object URL, or the download is refused) and
\* downloadViaDataUrl builds its URL and calls download.
BlobDownloadDone ==
    /\ wk.pc = "blob"
    /\ \/ wk' = [wk EXCEPT !.pc = "returned", !.written = "blob",
                            !.file = BlobBytes(wk.csvText)]
       \/ wk' = IF URIError(wk.csvText)
                THEN [wk EXCEPT !.pc = "raised", !.blobFailed = TRUE,
                                !.raised = "URIError"]
                ELSE [wk EXCEPT !.pc = "data", !.blobFailed = TRUE]
    /\ UNCHANGED <<state, stored, sh, ph, ch, closed>>

\* downloadViaDataUrl, lines 215-230: the file is written from the data URL,
\* or the download is refused and the error of both paths is raised.
DataDownloadDone ==
    /\ wk.pc = "data"
    /\ \/ wk' = [wk EXCEPT !.pc = "returned", !.written = "data",
                            !.file = DataUrlBytes(encodeURIComponent(wk.csvText))]
       \/ wk' = [wk EXCEPT !.pc = "raised", !.raised = DownloadError]
    /\ UNCHANGED <<state, stored, sh, ph, ch, closed>>

CsvNext == BlobDownloadDone \/ DataDownloadDone

CsvSpec == CsvInit /\ [][CsvNext]_vars

\* ------------------------------------------------------ the status snapshot
\* The status record in chrome.storage.local across a restart of the
\* background process.  In this specification stored is the storage area
\* with both records (config and status), wk is the background process
\* (loading its Config or ready; whether it has been restarted; the status
\* record found in the storage when it was), and ch holds the getStatus
\* requests.  A run is followed up to its last profile, one status
\* publication after each transition.
Queries == 1..MaxQueries

\* updateStatus(partial), lines 519-556: the snapshot that is persisted and
\* sent ("" stands for a partial without message).
updateStatus(st, message) ==
    LET total == Len(st.queue)
        processed == Min(st.currentIndex, total)
    IN  [ isScraping |-> st.isScraping,
          total |-> total,
          processed |-> processed,
          pending |-> Max(total - processed, 0),
          errors |-> st.errors,
          delayMs |-> st.delayMs,
          maxRetries |-> st.maxRetries,
          lastDoctor |-> st.lastDoctor,
          retrying |-> st.retrying,
          message |-> IF message # "" THEN message
                      ELSE IF st.isScraping THEN "Scraping in progress..."
                      ELSE "Idle." ]

NoSnapshot == [updateStatus(InitialState(0, 0), "") EXCEPT !.message = "none"]

\* handleGetStatus after its read of the storage.
handleGetStatus(status, st) ==
    IF status # NoSnapshot
    THEN status
    ELSE updateStatus([resetState(st) EXCEPT !.retrying = NoRetry], "Idle.")

NoQuery == [pc |-> "new", reply |-> NoSnapshot, restarted |-> FALSE]

SnapInit ==
    /\ state = InitialState(DefaultDelayMs, DefaultMaxRetries)
    /\ stored = [config |-> ConfigOf(state), status |-> updateStatus(state, "")]
    /\ sh = [i \in Starts |-> NoStart]
    /\ wk = [pc |-> "ready", restarted |-> FALSE, found |-> NoSnapshot]
    /\ ph = [j \in Stops |-> NoStop]
    /\ ch = [k \in Queries |-> NoQuery]
    /\ closed = 0

\* A transition of the run to st, published with message.
Published(st, message) ==
    /\ state' = st
    /\ stored' = [stored EXCEPT !.status = updateStatus(st, message)]
    /\ UNCHANGED <<sh, wk, ph, ch, closed>>

\* handleStartScraping, lines 951-966.
RunInstalled ==
    /\ wk.pc = "ready" /\ ~wk.restarted
    /\ ~state.isScraping
    /\ \E rawLinks \in PageLinks :
          LET links == UniqueLinks(rawLinks, <<>>)
          IN  /\ Len(links) > 0
              /\ Published(InstallRun(state, links), "Found doctor profiles. Starting...")

\* processQueue, lines 835-886: the entry at the cursor is skipped, scraped
\* or given up.
RunProfile ==
    /\ wk.pc = "ready"
    /\ state.isScraping /\ state.currentIndex < Len(state.queue)
    /\ LET r == processQueue(state, NoWorker)
       IN  IF r.w.pc = "skipstatus"
           THEN Published(r.st, "Skipped duplicate link")
           ELSE \/ Published(ProfileScraped(r.st, r.w).st, "Processed")
                \/ Published(ProfileFailed(r.st, r.w, ScrapeError).st, "Processed")

\* The background process is stopped in the middle of the run and started
\* again: the module is evaluated (lines 34-50) and loadPersistedConfig is
\* called (line 272).
Restart ==
    /\ wk.pc = "ready" /\ ~wk.restarted
    /\ state.isScraping
    /\ state' = InitialState(DefaultDelayMs, DefaultMaxRetries)
    /\ wk' = [pc |-> "loading", restarted |-> TRUE, found |-> stored.status]
    /\ UNCHANGED <<stored, sh, ph, ch, closed>>

\* loadPersistedConfig has read the Config (lines 247-269): configReady is
\* resolved.  The getStatus requests that waited for it read the storage
\* (line 1003), and the initial status is published (lines 1097-1099); the
\* reads are issued before the write.
ConfigReady ==
    /\ wk.pc = "loading"
    /\ state' = loadPersistedConfig([delayMs |-> Num(stored.config.delayMs),
                                     maxRetries |-> Num(stored.config.maxRetries)])
    /\ ch' = [k \in Queries |->
                IF ch[k].pc = "waiting"
                THEN [ch[k] EXCEPT !.pc = "done",
                                   !.reply = handleGetStatus(stored.status, state')]
                ELSE ch[k]]
    /\ stored' = [config |-> ConfigOf(state'), status |-> updateStatus(state', "")]
    /\ wk' = [wk EXCEPT !.pc = "ready"]
    /\ UNCHANGED <<sh, ph, closed>>

\* handleGetStatus, lines 1001-1011: wait for configReady, then answer with
\* the status record of the storage.
GetStatus(k) ==
    /\ ch[k].pc = "new"
    /\ \A m \in 1..(k - 1) : ch[m].pc # "new"
    /\ ch' = [ch EXCEPT ![k] =
                IF wk.pc = "loading"
                THEN [pc |-> "waiting", reply |-> NoSnapshot, restarted |-> TRUE]
                ELSE [pc |-> "done", reply |-> handleGetStatus(stored.status, state),
                      restarted |-> wk.restarted]]
    /\ UNCHANGED <<state, stored, sh, wk, ph, closed>>

SnapNext ==
    \/ RunInstalled
    \/ RunProfile
    \/ Restart
    \/ ConfigReady
    \/ \E k \in Queries : GetStatus(k)

SnapSpec == SnapInit /\ [][SnapNext]_vars

\* ----------------------------------------------------------- normaliseText
\* normaliseText on a value: null, undefined, or a string, which is a
\* sequence of UTF-16 code units.  In this specification wk is a value, how
\* often normaliseText has been applied to it, and the results.
NullText == [kind |-> "null", text |-> <<>>]
UndefinedText == [kind |-> "undefined", text |-> <<>>]
String(text) == [kind |-> "string", text |-> text]

Zwnj == 8204
ArabicIndicDigits == 1632..1641
PersianDigits == 1776..1785

\* The code units of the strings: a digit of each locale alphabet, an ASCII
\* digit, a space, a line feed, the zero-width non-joiner and a letter.
TextChars == {1637, 1781, 53, 32, 10, Zwnj, 97}
TextValues ==
    {NullText, UndefinedText}
        \cup {String(text) : text \in UNION {[1..n -> TextChars] : n \in 0..MaxChars}}

\* DIGIT_MAP[digit] ?? digit, for a match of /[\u0660-\u0669\u06F0-\u06F9]/.
DIGIT_MAP(digit) ==
    IF digit \in ArabicIndicDigits THEN 48 + (digit - 1632)
    ELSE IF digit \in PersianDigits THEN 48 + (digit - 1776)
    ELSE digit

\* The characters that \s matches and trim() removes.
WhiteSpace ==
    {9, 10, 11, 12, 13, 32, 160, 5760, 8232, 8233, 8239, 8287, 12288, 65279}
        \cup (8192..8202)

convertLocaleDigits(value) ==
    IF value.kind \in {"null", "undefined"}
    THEN <<>>
    ELSE [n \in 1..Len(value.text) |-> DIGIT_MAP(value.text[n])]

\* replace(/\u200c/g, "")
RemoveZwnj(text) == SelectSeq(text, LAMBDA c : c # Zwnj)

\* replace(/\s+/g, " ")
RECURSIVE CollapseSpaces(_)
CollapseSpaces(text) ==
    IF text = <<>> THEN <<>>
    ELSE IF Head(text) \in WhiteSpace
         THEN IF Len(text) > 1 /\ text[2] \in WhiteSpace
              THEN CollapseSpaces(Tail(text))
              ELSE <<32>> \o CollapseSpaces(Tail(text))
         ELSE <<Head(text)>> \o CollapseSpaces(Tail(text))

\* trim()
RECURSIVE Trim(_)
Trim(text) ==
    IF text = <<>> THEN <<>>
    ELSE IF Head(text) \in WhiteSpace THEN Trim(Tail(text))
    ELSE IF text[Len(text)] \in WhiteSpace THEN Trim(SubSeq(text, 1, Len(text) - 1))
    ELSE text

\* A normaliseWhitespace that removes the zero-width non-joiner last.
normaliseWhitespaceLate(value) ==
    RemoveZwnj(Trim(CollapseSpaces(convertLocaleDigits(value))))

normaliseWhitespace(value) ==
    Trim(CollapseSpaces(RemoveZwnj(convertLocaleDigits(value))))

normaliseText(value) == normaliseWhitespace(value)

TextInit ==
    /\ state = InitialState(DefaultDelayMs, DefaultMaxRetries)
    /\ stored = ConfigOf(state)
    /\ sh = [i \in Starts |-> NoStart]
    /\ wk \in {[value |-> value, applied |-> 0, once |-> <<>>, out |-> <<>>] :
                    value \in TextValues}
    /\ ph = [j \in Stops |-> NoStop]
    /\ ch = [k \in Configs |-> NoUpdate]
    /\ closed = 0

\* normaliseText is applied to the value, then to its own result.
Normalise ==
    /\ wk.applied < MaxApplications
    /\ LET out == normaliseText(IF wk.applied = 0 THEN wk.value ELSE String(wk.out))
       IN  wk' = [wk EXCEPT !.applied = @ + 1,
                            !.once = IF wk.applied = 0 THEN out ELSE @,
                            !.out = out]
    /\ UNCHANGED <<state, stored, sh, ph, ch, closed>>

TextNext == Normalise

TextSpec == TextInit /\ [][TextNext]_vars

\* -------------------------------------------------------- extractCodeToken
\* extractCodeToken on a normalised text (a sequence of code units).  In this
\* specification wk is one call: the text, whether it has returned, and
\* the token it returned.
IsDigit(c) == c \in 48..57
\* \p{L}, for the code units of the texts: the ASCII letters and the letters
\* of the Arabic block.
IsLetter(c) == c \in (65..90) \cup (97..122) \cup (1569..1610) \cup (1646..1747)

\* The code units of the texts: a, F, 1, a space and a colon.
CodeChars == {97, 70, 49, 32, 58}
CodeTexts == UNION {[1..n -> CodeChars] : n \in 0..MaxCodeLen}

\* The index after the longest run of digits (of whitespace) from index j.
RECURSIVE DigitsEnd(_, _)
DigitsEnd(text, j) ==
    IF j <= Len(text) /\ IsDigit(text[j]) THEN DigitsEnd(text, j + 1) ELSE j
RECURSIVE SpacesEnd(_, _)
SpacesEnd(text, j) ==
    IF j <= Len(text) /\ text[j] \in WhiteSpace THEN SpacesEnd(text, j + 1) ELSE j

\* A match of /(?:\p{L}\s*)?\d+(?:\s*\p{L})?/u that begins at index i: a
\* letter and whitespace before the digits if there are, the longest run of
\* digits, and whitespace and one letter after it if there are.
MatchAt(text, i) ==
    LET n == Len(text)
        afterLetter == SpacesEnd(text, i + 1)
        withLetter == IsLetter(text[i]) /\ afterLetter <= n /\ IsDigit(text[afterLetter])
        digits == IF withLetter THEN afterLetter ELSE i
        afterDigits == DigitsEnd(text, digits)
        suffix == SpacesEnd(text, afterDigits)
    IN  [ found |-> withLetter \/ IsDigit(text[i]),
          last |-> IF suffix <= n /\ IsLetter(text[suffix]) THEN suffix
                   ELSE afterDigits - 1 ]

\* text.match(...): the leftmost match.
primaryMatch(text) ==
    LET starts == {i \in 1..Len(text) : MatchAt(text, i).found}
    IN  IF starts = {} THEN <<>>
        ELSE LET i == CHOOSE a \in starts : \A b \in starts : a <= b
             IN  SubSeq(text, i, MatchAt(text, i).last)

\* text.split(/[^0-9\p{L}]+/u).filter(Boolean)
RECURSIVE SplitTokens(_, _)
SplitTokens(text, token) ==
    IF text = <<>>
    THEN IF token = <<>> THEN <<>> ELSE <<token>>
    ELSE IF IsDigit(Head(text)) \/ IsLetter(Head(text))
         THEN SplitTokens(Tail(text), Append(token, Head(text)))
         ELSE (IF token = <<>> THEN <<>> ELSE <<token>>) \o SplitTokens(Tail(text), <<>>)

HasDigit(token) == \E n \in 1..Len(token) : IsDigit(token[n])
HasLetter(token) == \E n \in 1..Len(token) : IsLetter(token[n])

\* The loop over the tokens, lines 590-604.
RECURSIVE TokenLoop(_, _)
TokenLoop(tokens, numericFallback) ==
    IF tokens = <<>> THEN numericFallback
    ELSE IF HasDigit(Head(tokens)) /\ HasLetter(Head(tokens)) THEN Head(tokens)
    ELSE TokenLoop(Tail(tokens),
                   IF HasDigit(Head(tokens)) /\ numericFallback = <<>>
                   THEN Head(tokens) ELSE numericFallback)

extractCodeToken(text) ==
    IF text = <<>> THEN <<>>
    ELSE IF primaryMatch(text) # <<>>
         THEN SelectSeq(primaryMatch(text), LAMBDA c : c \notin WhiteSpace)
         ELSE TokenLoop(SplitTokens(text, <<>>), <<>>)

TokenInit ==
    /\ state = InitialState(DefaultDelayMs, DefaultMaxRetries)
    /\ stored = ConfigOf(state)
    /\ sh = [i \in Starts |-> NoStart]
    /\ wk \in {[text |-> text, pc |-> "called", token |-> <<>>] : text \in CodeTexts}
    /\ ph = [j \in Stops |-> NoStop]
    /\ ch = [k \in Configs |-> NoUpdate]
    /\ closed = 0

ExtractToken ==
    /\ wk.pc = "called"
    /\ wk' = [wk EXCEPT !.pc = "returned", !.token = extractCodeToken(wk.text)]
    /\ UNCHANGED <<state, stored, sh, ph, ch, closed>>

TokenNext == ExtractToken

TokenSpec == TokenInit /\ [][TokenNext]_vars

\* ------------------------------------------------------- extractDoctorCode
\* extractDoctorCode on the texts of the page's code elements and the
\* identifier values of its structured entries.  A value is a string, a
\* key-value object (its values in source order) or a list; the elements of
\* a list are strings and objects.  In this specification wk is one call:
\* the texts of the elements, the entries, whether it has returned, and the
\* code it returned.
TextValue(text) == [kind |-> "string", text |-> text, items |-> <<>>]
ObjectValue(items) == [kind |-> "object", text |-> <<>>, items |-> items]
ArrayValue(items) == [kind |-> "array", text |-> <<>>, items |-> items]
AbsentValue == [kind |-> "undefined", text |-> <<>>, items |-> <<>>]

\* The strings of the values: F1, G2, "M 3", 4, a, and the empty string.
CodeStrings == {<<70, 49>>, <<71, 50>>, <<77, 32, 51>>, <<52>>, <<97>>}
CodeElements ==
    {TextValue(text) : text \in CodeStrings}
        \cup {ObjectValue(<<TextValue(text)>>) : text \in CodeStrings}
CodeValues ==
    {AbsentValue, TextValue(<<>>)}
        \cup CodeElements
        \cup {ObjectValue(<<TextValue(a), TextValue(b)>>) : a, b \in CodeStrings}
        \cup {ArrayValue(<<a, b>>) : a, b \in CodeElements}
CodeEntries ==
    {<<[identifier |-> value]>> : value \in CodeValues}
        \cup {<<[identifier |-> value], [identifier |-> TextValue(text)]>> :
                 value \in CodeValues, text \in CodeStrings}

\* String(value) of an object: "[object Object]".
ObjectText == <<91, 111, 98, 106, 101, 99, 116, 32, 79, 98, 106, 101, 99, 116, 93>>

\* String(value), line 97: a string is itself, an object is rendered as
\* "[object Object]", a list as its elements joined by commas.
ElementText(value) == IF value.kind = "object" THEN ObjectText ELSE value.text
RECURSIVE JoinElements(_)
JoinElements(items) ==
    IF items = <<>> THEN <<>>
    ELSE IF Len(items) = 1 THEN ElementText(items[1])
    ELSE ElementText(items[1]) \o <<44>> \o JoinElements(Tail(items))
StringOf(value) ==
    IF value.kind = "array" THEN JoinElements(value.items) ELSE ElementText(value)

\* if (entry?.identifier)
Truthy(value) ==
    /\ value.kind # "undefined"
    /\ value.kind = "string" => value.text # <<>>

\* Lines 609-627: the candidates, the elements of the page first.
Candidates(elements, structuredEntries) ==
    elements \o
    [n \in 1..Len(SelectSeq(structuredEntries, LAMBDA e : Truthy(e.identifier))) |->
        SelectSeq(structuredEntries, LAMBDA e : Truthy(e.identifier))[n].identifier]

CandidateText(candidate) == normaliseText(String(StringOf(candidate)))

\* Lines 628-637: the first candidate with a code token.
RECURSIVE FirstParsed(_)
FirstParsed(candidates) ==
    IF candidates = <<>> THEN <<>>
    ELSE IF extractCodeToken(CandidateText(Head(candidates))) # <<>>
         THEN extractCodeToken(CandidateText(Head(candidates)))
         ELSE FirstParsed(Tail(candidates))

\* Lines 639-644: the first candidate with a text.
RECURSIVE FirstText(_)
FirstText(candidates) ==
    IF candidates = <<>> THEN <<>>
    ELSE IF CandidateText(Head(candidates)) # <<>>
         THEN CandidateText(Head(candidates))
         ELSE FirstText(Tail(candidates))

extractDoctorCode(elements, structuredEntries) ==
    LET candidates == Candidates(elements, structuredEntries)
    IN  IF FirstParsed(candidates) # <<>>
        THEN FirstParsed(candidates)
        ELSE FirstText(candidates)

CodeInit ==
    /\ state = InitialState(DefaultDelayMs, DefaultMaxRetries)
    /\ stored = ConfigOf(state)
    /\ sh = [i \in Starts |-> NoStart]
    /\ wk \in {[elements |-> elements, entries |-> entries, pc |-> "called",
                 code |-> <<>>] :
                    elements \in {<<>>, <<TextValue(<<97>>)>>},
                    entries \in CodeEntries}
    /\ ph = [j \in Stops |-> NoStop]
    /\ ch = [k \in Configs |-> NoUpdate]
    /\ closed = 0

ExtractCode ==
    /\ wk.pc = "called"
    /\ wk' = [wk EXCEPT !.pc = "returned",
                        !.code = extractDoctorCode(wk.elements, wk.entries)]
    /\ UNCHANGED <<state, stored, sh, ph, ch, closed>>

CodeNext == ExtractCode

CodeSpec == CodeInit /\ [][CodeNext]_vars

\* ------------------------------------------------------------- phone lists
\* toNormalisedPhoneList on a list of phone texts.  In this specification wk
\* is one call: the values, whether it has returned, and the list returned.
\* The texts: 01-2, "+9 1 2", "01 2", the same digits in Persian, a blank, a
\* word, and another number.
PhoneTexts ==
    { <<48, 49, 45, 50>>, <<43, 57, 32, 49, 32, 50>>, <<48, 49, 32, 50>>,
      <<1776, 1777, 1778>>, <<32>>, <<97>>, <<51, 52>> }
PhoneLists == UNION {[1..n -> PhoneTexts] : n \in 0..MaxPhones}

normalisePhoneValue(value) == normaliseWhitespace(String(value))

\* A key that is the normalised text itself.
phoneKeyText(value, transformed) == transformed

\* phoneKey(_, value): the second argument of the key function is the
\* normalised text.
phoneKey(value, transformed) ==
    SelectSeq(convertLocaleDigits(String(transformed)),
              LAMBDA c : IsDigit(c) \/ c = 43)

\* uniqueNormalisedList(values, normalisePhoneValue, phoneKey)
RECURSIVE uniquePhoneList(_, _, _)
uniquePhoneList(values, seen, output) ==
    IF values = <<>> THEN output
    ELSE LET transformed == normalisePhoneValue(Head(values))
             key == phoneKey(Head(values), transformed)
         IN  IF transformed = <<>> \/ key \in seen
             THEN uniquePhoneList(Tail(values), seen, output)
             ELSE uniquePhoneList(Tail(values), seen \cup {key},
                                  Append(output, transformed))

toNormalisedPhoneList(values) == uniquePhoneList(values, {}, <<>>)

PhoneInit ==
    /\ state = InitialState(DefaultDelayMs, DefaultMaxRetries)
    /\ stored = ConfigOf(state)
    /\ sh = [i \in Starts |-> NoStart]
    /\ wk \in {[values |-> values, pc |-> "called", phones |-> <<>>] :
                    values \in PhoneLists}
    /\ ph = [j \in Stops |-> NoStop]
    /\ ch = [k \in Configs |-> NoUpdate]
    /\ closed = 0

NormalisePhones ==
    /\ wk.pc = "called"
    /\ wk' = [wk EXCEPT !.pc = "returned", !.phones = toNormalisedPhoneList(wk.values)]
    /\ UNCHANGED <<state, stored, sh, ph, ch, closed>>

PhoneNext == NormalisePhones

PhoneSpec == PhoneInit /\ [][PhoneNext]_vars

\* ------------------------------------------------------------ office lists
\* normaliseOfficeList on a list of candidate offices, each with a city, a
\* list of addresses and a list of phones.  In this specification wk is one
\* call: the offices, whether it has returned, and the list returned.
\* The texts: the cities "", a and " a"; the addresses a and 1; the phones 1
\* and 2.
OfficeCities == {<<>>, <<97>>, <<32, 97>>}
OfficeAddresses == UNION {[1..n -> {<<97>>, <<49>>}] : n \in 0..MaxOfficeValues}
OfficePhones == UNION {[1..n -> {<<49>>, <<50>>}] : n \in 0..MaxOfficeValues}
CandidateOffices == [city : OfficeCities, addresses : OfficeAddresses, phones : OfficePhones]
OfficeLists == UNION {[1..n -> CandidateOffices] : n \in 0..MaxOffices}

\* uniqueNormalisedList(values): normaliseText, the text being its own key.
RECURSIVE uniqueTextList(_, _)
uniqueTextList(values, output) ==
    IF values = <<>> THEN output
    ELSE LET transformed == normaliseText(String(Head(values)))
         IN  IF transformed = <<>> \/ \E n \in 1..Len(output) : output[n] = transformed
             THEN uniqueTextList(Tail(values), output)
             ELSE uniqueTextList(Tail(values), Append(output, transformed))

toNormalisedList(values) == uniqueTextList(values, <<>>)

\* values.join("||")
RECURSIVE JoinBars(_)
JoinBars(values) ==
    IF values = <<>> THEN <<>>
    ELSE IF Len(values) = 1 THEN values[1]
    ELSE values[1] \o <<124, 124>> \o JoinBars(Tail(values))

\* Lines 142-144: the normalised fields of an office.
NormalisedOffice(office) ==
    [ city |-> normaliseText(String(office.city)),
      addresses |-> toNormalisedList(office.addresses),
      phones |-> toNormalisedPhoneList(office.phones) ]

\* Line 150: the key of an office, a string.
OfficeKey(office) ==
    office.city \o <<124, 124>> \o JoinBars(office.addresses)
                \o <<124, 124>> \o JoinBars(office.phones)

RECURSIVE OfficeLoop(_, _, _)
OfficeLoop(offices, seen, normalised) ==
    IF offices = <<>> THEN normalised
    ELSE LET office == NormalisedOffice(Head(offices))
         IN  IF \/ office.city = <<>> /\ office.addresses = <<>> /\ office.phones = <<>>
                \/ OfficeKey(office) \in seen
             THEN OfficeLoop(Tail(offices), seen, normalised)
             ELSE OfficeLoop(Tail(offices), seen \cup {OfficeKey(office)},
                             Append(normalised, office))

normaliseOfficeList(offices) == OfficeLoop(offices, {}, <<>>)

OfficeInit ==
    /\ state = InitialState(DefaultDelayMs, DefaultMaxRetries)
    /\ stored = ConfigOf(state)
    /\ sh = [i \in Starts |-> NoStart]
    /\ wk \in {[offices |-> offices, pc |-> "called", normalised |-> <<>>] :
                    offices \in OfficeLists}
    /\ ph = [j \in Stops |-> NoStop]
    /\ ch = [k \in Configs |-> NoUpdate]
    /\ closed = 0

NormaliseOffices ==
    /\ wk.pc = "called"
    /\ wk' = [wk EXCEPT !.pc = "returned",
                        !.normalised = normaliseOfficeList(wk.offices)]
    /\ UNCHANGED <<state, stored, sh, ph, ch, closed>>

OfficeNext == NormaliseOffices

OfficeSpec == OfficeInit /\ [][OfficeNext]_vars

\* ------------------------------------------------------------ doctor links
\* Lines 937-951 of handleStartScraping with getDoctorLinksFromTab: the
\* links the listing page answers become the queue.  In this specification
\* wk is one such call: the links answered and whether the queue is set.
\* The links: https, http and intent links on nobat.ir, www.nobat.ir and
\* example.org with and without a fragment, the intent link as a parser
\* without hosts for such schemes reads it, a relative link, and "http://".
LinkSchemes == {"https", "http", "intent"}
LinkHosts == {"nobat.ir", "www.nobat.ir", "example.org"}
LinkFragments == {"", "top"}
RawLinkValues ==
    {Link(scheme, host, "/dr/a", frag) :
        scheme \in LinkSchemes, host \in LinkHosts, frag \in LinkFragments}
    \cup {Link("intent", "", "//nobat.ir/dr/a", ""),
          Link("", "", "/dr/a", "top"),
          Link("http", "", "", "")}
RawLinkLists == UNION {[1..n -> RawLinkValues] : n \in 0..MaxLinks}

LinkInit ==
    /\ state = InitialState(DefaultDelayMs, DefaultMaxRetries)
    /\ stored = ConfigOf(state)
    /\ sh = [i \in Starts |-> NoStart]
    /\ wk \in {[rawLinks |-> rawLinks, pc |-> "answered"] : rawLinks \in RawLinkLists}
    /\ ph = [j \in Stops |-> NoStop]
    /\ ch = [k \in Configs |-> NoUpdate]
    /\ closed = 0

\* Lines 937-951: without links the state is reset, else they are the queue.
QueueLinks ==
    /\ wk.pc = "answered"
    /\ LET links == UniqueLinks(wk.rawLinks, <<>>)
       IN  /\ state' = [state EXCEPT !.queue = links]
           /\ wk' = [wk EXCEPT !.pc = IF links = <<>> THEN "no-links" ELSE "queued"]
    /\ UNCHANGED <<stored, sh, ph, ch, closed>>

LinkNext == QueueLinks

LinkSpec == LinkInit /\ [][LinkNext]_vars

\* --------------------------------------------------------- the CSV columns
\* convertToCsv on records with offices.  csv-export.js declares it twice:
\* at lines 95-172 with columns per office position, and at lines 269-281
\* with six columns.  In this specification wk is one call: which
\* declaration is in force, the rows, whether it has returned, and the CSV
\* returned (the labels of the header line, and every data line as text).
\* The texts: the city c; the addresses a, "a " and "a,b"; the phones 1
\* and 2; the name n.
CsvAddressLists == {<<>>, <<<<97>>>>, <<<<97>>, <<97, 32>>>>, <<<<97>>, <<97, 44, 98>>>>}
CsvPhoneLists == {<<>>, <<<<49>>>>, <<<<49>>, <<50>>>>}
CsvOffices == [city : {<<99>>}, addresses : CsvAddressLists, phones : CsvPhoneLists]
CsvRows ==
    [name : {<<110>>},
     offices : UNION {[1..n -> CsvOffices] : n \in 0..MaxCsvOffices}]
CsvRowLists == UNION {[1..n -> CsvRows] : n \in 0..MaxCsvRows}

\* A header: the office position (0 for a base column), the field and the
\* number of the column among the columns of the field.
Label(office, field, index) == [office |-> office, field |-> field, index |-> index]

CSV_HEADERS == <<"Name", "Specialty", "Code", "City", "Address", "Phones">>

\* normaliseValue on a string; undefined (<<>>) prints as the empty string.
normaliseValue(value) == Trim(value)

\* str.replace(/"/g, '""')
RECURSIVE DoubleQuotes(_)
DoubleQuotes(str) ==
    IF str = <<>> THEN <<>>
    ELSE (IF Head(str) = 34 THEN <<34, 34>> ELSE <<Head(str)>>) \o DoubleQuotes(Tail(str))

escapeCsvValue(value) ==
    LET str == normaliseValue(value)
    IN  IF \E n \in 1..Len(str) : str[n] \in {34, 44, 10}
        THEN <<34>> \o DoubleQuotes(str) \o <<34>>
        ELSE str

\* getOfficeFieldValues on the list of an office: the values that are not
\* empty once normalised, each once.
RECURSIVE getOfficeFieldValues(_, _)
getOfficeFieldValues(list, values) ==
    IF list = <<>> THEN values
    ELSE LET normalised == normaliseValue(Head(list))
         IN  IF normalised = <<>> \/ \E n \in 1..Len(values) : values[n] = normalised
             THEN getOfficeFieldValues(Tail(list), values)
             ELSE getOfficeFieldValues(Tail(list), Append(values, normalised))

\* values[index], undefined (<<>>) past the end.
ValueAt(values, index) == IF index <= Len(values) THEN values[index] ELSE <<>>

\* Lines 99-118: for every office position the greatest number of values.
RECURSIVE Greatest(_)
Greatest(numbers) ==
    IF numbers = {} THEN 0
    ELSE LET n == CHOOSE m \in numbers : \A k \in numbers : k <= m IN n

OfficePositions(rows) ==
    Greatest({Len(rows[r].offices) : r \in 1..Len(rows)})

officeMetrics(rows) ==
    [index \in 1..OfficePositions(rows) |->
        [addressColumns |->
            Greatest({Len(getOfficeFieldValues(rows[r].offices[index].addresses, <<>>)) :
                        r \in {q \in 1..Len(rows) : index <= Len(rows[q].offices)}}),
         phoneColumns |->
            Greatest({Len(getOfficeFieldValues(rows[r].offices[index].phones, <<>>)) :
                        r \in {q \in 1..Len(rows) : index <= Len(rows[q].offices)}})]]

\* Lines 120-140: the headers of the office positions from index on.
RECURSIVE dynamicHeaders(_, _)
dynamicHeaders(metrics, index) ==
    IF index > Len(metrics) THEN <<>>
    ELSE <<Label(index, "City", 1)>>
         \o [n \in 1..Max(1, metrics[index].addressColumns) |-> Label(index, "Address", n)]
         \o [n \in 1..Max(1, metrics[index].phoneColumns) |-> Label(index, "Phone", n)]
         \o dynamicHeaders(metrics, index + 1)

\* Lines 149-165: the office fields of a row from index on.
RECURSIVE officeValues(_, _, _)
officeValues(offices, metrics, index) ==
    IF index > Len(metrics) THEN <<>>
    ELSE LET office == IF index <= Len(offices) THEN offices[index]
                       ELSE [city |-> <<>>, addresses |-> <<>>, phones |-> <<>>]
             addressValues == getOfficeFieldValues(office.addresses, <<>>)
             phoneValues == getOfficeFieldValues(office.phones, <<>>)
         IN  <<escapeCsvValue(office.city)>>
             \o [n \in 1..Max(1, metrics[index].addressColumns) |->
                    escapeCsvValue(ValueAt(addressValues, n))]
             \o [n \in 1..Max(1, metrics[index].phoneColumns) |->
                    escapeCsvValue(ValueAt(phoneValues, n))]
             \o officeValues(offices, metrics, index + 1)

\* fields.join(",")
RECURSIVE JoinCommas(_)
JoinCommas(fields) ==
    IF fields = <<>> THEN <<>>
    ELSE IF Len(fields) = 1 THEN fields[1]
    ELSE fields[1] \o <<44>> \o JoinCommas(Tail(fields))

\* The base fields of a row: of the keys of the headers it has the name.
BaseValue(row, key) == IF key = "Name" THEN escapeCsvValue(row.name) ELSE <<>>

\* convertToCsv as declared at lines 95-172.
convertToCsvOffices(rows) ==
    LET metrics == officeMetrics(rows)
    IN  [ header |-> [n \in 1..Len(BASE_HEADERS) |-> Label(0, BASE_HEADERS[n], 1)]
                     \o dynamicHeaders(metrics, 1),
          lines |-> [r \in 1..Len(rows) |->
                       JoinCommas([n \in 1..Len(BASE_HEADERS) |->
                                      BaseValue(rows[r], BASE_HEADERS[n])]
                                  \o officeValues(rows[r].offices, metrics, 1))] ]

\* convertToCsv as declared at lines 269-281.
convertToCsvFixed(rows) ==
    [ header |-> [n \in 1..Len(CSV_HEADERS) |-> Label(0, CSV_HEADERS[n], 1)],
      lines |-> [r \in 1..Len(rows) |->
                   JoinCommas([n \in 1..Len(CSV_HEADERS) |->
                                  BaseValue(rows[r], CSV_HEADERS[n])])] ]

ColumnsInit ==
    /\ state = InitialState(DefaultDelayMs, DefaultMaxRetries)
    /\ stored = ConfigOf(state)
    /\ sh = [i \in Starts |-> NoStart]
    /\ wk \in {[declaration |-> declaration, rows |-> rows, pc |-> "called",
                 csv |-> [header |-> <<>>, lines |-> <<>>]] :
                    declaration \in {"first", "second"}, rows \in CsvRowLists}
    /\ ph = [j \in Stops |-> NoStop]
    /\ ch = [k \in Configs |-> NoUpdate]
    /\ closed = 0

ConvertRows ==
    /\ wk.pc = "called"
    /\ wk' = [wk EXCEPT !.pc = "returned",
                        !.csv = IF wk.declaration = "first"
                                THEN convertToCsvOffices(wk.rows)
                                ELSE convertToCsvFixed(wk.rows)]
    /\ UNCHANGED <<state, stored, sh, ph, ch, closed>>

ColumnsNext == ConvertRows

ColumnsSpec == ColumnsInit /\ [][ColumnsNext]_vars

\* ---------------------------------------------------------------- attempts
\* scrapeDoctorProfileWithRetries with scrapeDoctorProfile, and
\* getDoctorLinksFromTab, step by step: every await of theirs is a step.
\* In this specification wk is one such call: the operation (op), where it
\* is suspended (pc), the loop variables attempt and attempts, what the
\* current attempt has done (sends, injections, the outcome of its first
\* send, of its injection and of its second send), the waits taken so far
\* (waited, in ms) and how often the Config was updated meanwhile.
NoReceiver == "Could not establish connection. Receiving end does not exist."
NoSuchTab == "No tab with id: 7."
PortClosed == "The message port closed before a response was received."
CannotAccess == "Cannot access contents of the page."

\* chrome.tabs.sendMessage: an error of delivery, or the response of the page
\* (data, an error of the page, or nothing).
SendErrors == {NoReceiver, NoSuchTab, PortClosed}
SendResponses == {"data", "error", "empty"}
SendOutcomes == SendErrors \cup SendResponses
NotDone == "none"

\* /Receiving end does not exist/i.test(error.message)
IsNoReceiver(message) == message = NoReceiver

AttemptDelays == {0, 500, 1000, 2500}
AttemptOps == {"scrape", "links"}

\* Line 744: the wait before the next attempt.
retryWaitPlain(delayMs) == delayMs
retryWait(delayMs) == Max(delayMs, 1000)

AttemptInit ==
    /\ \E d \in AttemptDelays, r \in 0..MaxAttemptRetries :
           state = InitialState(d, r)
    /\ stored = ConfigOf(state)
    /\ sh = [i \in Starts |-> NoStart]
    /\ \E op \in AttemptOps :
           wk = [ op |-> op, pc |-> "attempt", attempt |-> 1,
                  attempts |-> IF op = "scrape" THEN Max(0, state.maxRetries) + 1 ELSE 1,
                  sends |-> 0, injections |-> 0,
                  first |-> NotDone, injected |-> NotDone, second |-> NotDone,
                  waited |-> <<>>, updates |-> 0 ]
    /\ ph = [j \in Stops |-> NoStop]
    /\ ch = [k \in Configs |-> NoUpdate]
    /\ closed = 0

\* The attempt throws.  For getDoctorLinksFromTab the error leaves the call;
\* in scrapeDoctorProfileWithRetries the catch at lines 738-745 rethrows it
\* on the last attempt and else waits.
AttemptThrows(st, w) ==
    IF w.op = "scrape" /\ w.attempt < w.attempts
    THEN [st |-> st,
          w |-> [w EXCEPT !.pc = "waiting",
                          !.waited = Append(@, retryWait(st.delayMs))]]
    ELSE [st |-> [st EXCEPT !.retrying = NoRetry], w |-> [w EXCEPT !.pc = "thrown"]]

\* Lines 712-720: the response of the page ends the attempt.
AttemptResponds(st, w, response) ==
    IF response = "data"
    THEN [st |-> [st EXCEPT !.retrying = NoRetry], w |-> [w EXCEPT !.pc = "returned"]]
    ELSE IF w.op = "links" /\ response = "empty"
    THEN [st |-> st, w |-> [w EXCEPT !.pc = "returned"]]
    ELSE AttemptThrows(st, w)

\* A catch that injects and resends after every error of delivery.
DeliveryFailedAlways(st, w, message) ==
    [st |-> st, w |-> [w EXCEPT !.pc = "inject"]]

\* Lines 703-710 (606-613): the catch of the first send.
DeliveryFailed(st, w, message) ==
    IF IsNoReceiver(message)
    THEN [st |-> st, w |-> [w EXCEPT !.pc = "inject"]]
    ELSE AttemptThrows(st, w)

\* Lines 729-736: the top of the loop, up to the await of ensureScraperTab;
\* getDoctorLinksFromTab starts with its send.
BeginAttempt ==
    /\ wk.pc = "attempt"
    /\ state' = [state EXCEPT !.retrying =
                    IF wk.op = "scrape" /\ wk.attempt > 1
                    THEN [attempt |-> wk.attempt, total |-> wk.attempts, url |-> LinkA]
                    ELSE NoRetry]
    /\ wk' = [wk EXCEPT !.pc = IF wk.op = "scrape" THEN "ensure" ELSE "send",
                        !.sends = 0, !.injections = 0,
                        !.first = NotDone, !.injected = NotDone, !.second = NotDone]
    /\ UNCHANGED <<stored, sh, ph, ch, closed>>

\* Line 698: ensureScraperTab resolves or rejects.
EnsureDone ==
    /\ wk.pc = "ensure"
    /\ \E ok \in BOOLEAN :
           LET next == IF ok THEN [st |-> state, w |-> [wk EXCEPT !.pc = "send"]]
                       ELSE AttemptThrows(state, wk)
           IN  state' = next.st /\ wk' = next.w
    /\ UNCHANGED <<stored, sh, ph, ch, closed>>

\* Lines 702 (605): the first sendMessageToTab settles.
SendDone ==
    /\ wk.pc = "send"
    /\ \E outcome \in SendOutcomes :
           LET w == [wk EXCEPT !.sends = @ + 1, !.first = outcome]
               next == IF outcome \in SendErrors
                       THEN DeliveryFailed(state, w, outcome)
                       ELSE AttemptResponds(state, w, outcome)
           IN  state' = next.st /\ wk' = next.w
    /\ UNCHANGED <<stored, sh, ph, ch, closed>>

\* Line 705 (608): injectContentScript resolves or rejects.
InjectDone ==
    /\ wk.pc = "inject"
    /\ \E outcome \in {"injected", CannotAccess} :
           LET w == [wk EXCEPT !.injections = @ + 1, !.injected = outcome]
               next == IF outcome = "injected"
                       THEN [st |-> state, w |-> [w EXCEPT !.pc = "resend"]]
                       ELSE AttemptThrows(state, w)
           IN  state' = next.st /\ wk' = next.w
    /\ UNCHANGED <<stored, sh, ph, ch, closed>>

\* Line 706 (609): the second sendMessageToTab settles; its error is not
\* caught inside the attempt.
ResendDone ==
    /\ wk.pc = "resend"
    /\ \E outcome \in SendOutcomes :
           LET w == [wk EXCEPT !.sends = @ + 1, !.second = outcome]
               next == IF outcome \in SendErrors
                       THEN AttemptThrows(state, w)
                       ELSE AttemptResponds(state, w, outcome)
           IN  state' = next.st /\ wk' = next.w
    /\ UNCHANGED <<stored, sh, ph, ch, closed>>

\* Line 744: the delay is over; the loop goes on with the next attempt.
WaitDone ==
    /\ wk.pc = "waiting"
    /\ wk' = [wk EXCEPT !.pc = "attempt", !.attempt = @ + 1]
    /\ UNCHANGED <<state, stored, sh, ph, ch, closed>>

\* An updateConfig request changes delayMs while the call is suspended.
DelayUpdated ==
    /\ wk.pc \notin {"returned", "thrown"}
    /\ wk.updates < MaxDelayUpdates
    /\ \E d \in AttemptDelays \ {state.delayMs} :
           state' = [state EXCEPT !.delayMs = ensureDelay(Num(d), state.delayMs)]
    /\ stored' = ConfigOf(state')
    /\ wk' = [wk EXCEPT !.updates = @ + 1]
    /\ UNCHANGED <<sh, ph, ch, closed>>

AttemptNext ==
    \/ BeginAttempt
    \/ EnsureDone
    \/ SendDone
    \/ InjectDone
    \/ ResendDone
    \/ WaitDone
    \/ DelayUpdated

AttemptSpec == AttemptInit /\ [][AttemptNext]_vars

\* ---------------------------------------------------------------- sessions
\* ensureScraperTab with createScraperTab, waitForTabLoad and
\* cleanupScraperTab, step by step: every await of a browser primitive is a
\* step.  In this specification wk is the activation that calls
\* ensureScraperTab, once per attempt: where it is suspended (pc), whether
\* it is reusing or creating (phase), the session it found (old), the tab
\* its pending primitive addresses (tabId), the tabs the browser has open,
\* the number of tabs created (made), the sessions torn down in the current
\* call, the outcome of the last call and the number of calls.  closed
\* counts the tabs the user has closed.
EnsureUrls == {LinkAHttpFrag, LinkForeign, Link("http", "", "", "")}

\* The id of the next tab createTab opens: 1 is the session of an earlier
\* attempt, if any.
FreshTab(w) == w.made + 2

SessionInit ==
    /\ \E tab \in {NoTab, ScraperTab} :
           /\ state = [InitialState(DefaultDelayMs, DefaultMaxRetries)
                          EXCEPT !.isScraping = TRUE, !.scraperTabId = tab]
           /\ wk = [ pc |-> "idle", phase |-> "none", old |-> NoTab, tabId |-> NoTab,
                     open |-> {tab} \ {NoTab}, made |-> 0, torn |-> {},
                     result |-> "none", calls |-> 0 ]
    /\ stored = ConfigOf(state)
    /\ sh = [i \in Starts |-> NoStart]
    /\ ph = [j \in Stops |-> NoStop]
    /\ ch = [k \in Configs |-> NoUpdate]
    /\ closed = 0

\* ensureScraperTab throws: the attempt of scrapeDoctorProfile fails.
EnsureThrows(st, w) ==
    [st |-> st, w |-> [w EXCEPT !.pc = "idle", !.result = "thrown"]]

\* Line 679 with lines 634-646: createScraperTab calls createTab.
createScraperTab(st, w) ==
    [st |-> st, w |-> [w EXCEPT !.pc = "create", !.phase = "create", !.tabId = NoTab]]

\* A catch that creates the fresh session without a teardown.
ReuseFailedNoTeardown(st, w) == createScraperTab(st, w)

\* Lines 670-676 with cleanupScraperTab: the catch of the reuse.
ReuseFailed(st, w) ==
    IF st.scraperTabId # NoTab
    THEN [st |-> [st EXCEPT !.scraperTabId = NoTab],
          w |-> [w EXCEPT !.pc = "remove", !.tabId = st.scraperTabId,
                          !.torn = @ \cup {st.scraperTabId}]]
    ELSE createScraperTab(st, w)

\* Lines 656-664: the call, up to its first browser primitive.
CallEnsure ==
    /\ wk.pc = "idle"
    /\ wk.calls < MaxEnsures
    /\ \E url \in EnsureUrls :
           LET w == [wk EXCEPT !.calls = @ + 1, !.torn = {}, !.old = state.scraperTabId,
                              !.result = "pending"]
               next == IF normaliseDoctorProfileUrl(url) = <<>>
                       THEN [st |-> state,
                             w |-> [w EXCEPT !.result = "invalid", !.phase = "none"]]
                       ELSE IF state.scraperTabId # NoTab
                       THEN [st |-> state,
                             w |-> [w EXCEPT !.pc = "update", !.phase = "reuse",
                                             !.tabId = state.scraperTabId]]
                       ELSE createScraperTab(state, w)
           IN  state' = next.st /\ wk' = next.w
    /\ UNCHANGED <<stored, sh, ph, ch, closed>>

\* Line 664: updateTab answered; it succeeds only on an open tab.
UpdateDone ==
    /\ wk.pc = "update"
    /\ \E ok \in {b \in BOOLEAN : b => wk.tabId \in wk.open} :
           LET next == IF ~ok THEN ReuseFailed(state, wk)
                       ELSE IF state.scraperTabId # NoTab
                       THEN [st |-> state,
                             w |-> [wk EXCEPT !.pc = "discard",
                                              !.tabId = state.scraperTabId]]
                       ELSE [st |-> state, w |-> [wk EXCEPT !.pc = "wait", !.tabId = NoTab]]
           IN  state' = next.st /\ wk' = next.w
    /\ UNCHANGED <<stored, sh, ph, ch, closed>>

\* Lines 666 and 649: setTabAutoDiscardable answered; then waitForTabLoad is
\* called, in the reuse with scraperTabId as it is now.
DiscardDone ==
    /\ wk.pc = "discard"
    /\ \E ok \in {b \in BOOLEAN : b => wk.tabId \in wk.open} :
           LET next == IF ok
                       THEN [st |-> state,
                             w |-> [wk EXCEPT !.pc = "wait",
                                              !.tabId = IF wk.phase = "reuse"
                                                        THEN state.scraperTabId ELSE @]]
                       ELSE IF wk.phase = "reuse" THEN ReuseFailed(state, wk)
                       ELSE EnsureThrows(state, wk)
           IN  state' = next.st /\ wk' = next.w
    /\ UNCHANGED <<stored, sh, ph, ch, closed>>

\* Lines 668-669 and 651-652: waitForTabLoad settled: the page is complete,
\* or the tab was closed, or the wait timed out.
LoadDone ==
    /\ wk.pc = "wait"
    /\ \E outcome \in IF wk.tabId \in wk.open THEN {"complete", "timeout"} ELSE {"closed"} :
           LET next == IF outcome = "complete"
                       THEN [st |-> state, w |-> [wk EXCEPT !.pc = "idle", !.result = "ready"]]
                       ELSE IF wk.phase = "reuse" THEN ReuseFailed(state, wk)
                       ELSE EnsureThrows(state, wk)
           IN  state' = next.st /\ wk' = next.w
    /\ UNCHANGED <<stored, sh, ph, ch, closed>>

\* cleanupScraperTab, lines 689-694: removeTab answered (removed, already
\* gone, or another error with the tab left open); every error is swallowed.
RemoveDone ==
    /\ wk.pc = "remove"
    /\ \E removed \in {b \in BOOLEAN : b => wk.tabId \in wk.open} :
           LET w == [wk EXCEPT !.open = IF removed THEN @ \ {wk.tabId} ELSE @]
               next == createScraperTab(state, w)
           IN  state' = next.st /\ wk' = next.w
    /\ UNCHANGED <<stored, sh, ph, ch, closed>>

\* Lines 646-647: createTab answered with the new tab, or failed.
CreateDone ==
    /\ wk.pc = "create"
    /\ \E ok \in BOOLEAN :
           LET next == IF ok
                       THEN [st |-> [state EXCEPT !.scraperTabId = FreshTab(wk)],
                             w |-> [wk EXCEPT !.pc = "discard", !.tabId = FreshTab(wk),
                                              !.open = @ \cup {FreshTab(wk)},
                                              !.made = @ + 1]]
                       ELSE EnsureThrows(state, wk)
           IN  state' = next.st /\ wk' = next.w
    /\ UNCHANGED <<stored, sh, ph, ch, closed>>

\* chrome.tabs.onRemoved, lines 1088-1091: the user closes an open tab.
TabClosed ==
    /\ closed < MaxTabCloses
    /\ \E tab \in wk.open :
           /\ wk' = [wk EXCEPT !.open = @ \ {tab}]
           /\ state' = [state EXCEPT !.scraperTabId = IF @ = tab THEN NoTab ELSE @]
    /\ closed' = closed + 1
    /\ UNCHANGED <<stored, sh, ph, ch>>

SessionNext ==
    \/ CallEnsure
    \/ UpdateDone
    \/ DiscardDone
    \/ LoadDone
    \/ RemoveDone
    \/ CreateDone
    \/ TabClosed

SessionSpec == SessionInit /\ [][SessionNext]_vars

\* ------------------------------------------------------- listing expansion
\* loadAdditionalDoctorCards with waitForDoctorCardCountIncrease on a page
\* that may add cards and may drop its load-more control at any moment.  In
\* this specification wk is one call: where it is suspended (pc), its
\* parameter maxIterations, its locals iteration and previousCount, the
\* cards of the page (count), whether the page has a usable control
\* (button), the click events dispatched on the control (clicks), the waits
\* started and the waits settled, and why the loop was left (left).
DefaultMaxIterations == 12

\* Lines 265-267: button.click() and the click event dispatched after it.
clickControl(w) == [w EXCEPT !.clicks = @ + 2]

ExpandInit ==
    /\ state = InitialState(DefaultDelayMs, DefaultMaxRetries)
    /\ stored = ConfigOf(state)
    /\ sh = [i \in Starts |-> NoStart]
    /\ \E cap \in {1, 2, DefaultMaxIterations}, cards \in 0..1, button \in BOOLEAN :
           wk = [ pc |-> "head", maxIterations |-> cap, iteration |-> 0,
                  previousCount |-> cards, count |-> cards, button |-> button,
                  clicks |-> 0, waits |-> 0, settled |-> 0, left |-> "none" ]
    /\ ph = [j \in Stops |-> NoStop]
    /\ ch = [k \in Configs |-> NoUpdate]
    /\ closed = 0

\* Lines 270-276: the wait has settled with updatedCount.
WaitSettled(w, updatedCount) ==
    IF updatedCount = 0 \/ updatedCount <= w.previousCount
    THEN [w EXCEPT !.settled = @ + 1, !.pc = "done", !.left = "no increase"]
    ELSE [w EXCEPT !.settled = @ + 1, !.pc = "sleep",
                   !.previousCount = updatedCount, !.iteration = @ + 1]

\* Lines 259-269: the head of the loop up to the wait; checkCount at the
\* end of the executor settles the wait at once when cards were added since
\* previousCount was read.
ExpandHead ==
    /\ wk.pc = "head"
    /\ wk' = IF wk.iteration >= wk.maxIterations
             THEN [wk EXCEPT !.pc = "done", !.left = "cap"]
             ELSE IF ~wk.button
             THEN [wk EXCEPT !.pc = "done", !.left = "no control"]
             ELSE LET w == [clickControl(wk) EXCEPT !.waits = @ + 1, !.pc = "wait"]
                  IN  IF w.count > w.previousCount THEN WaitSettled(w, w.count) ELSE w
    /\ UNCHANGED <<state, stored, sh, ph, ch, closed>>

\* The page adds a card; the observer of a pending wait runs checkCount.
CardAdded ==
    /\ wk.pc # "done"
    /\ wk.count < MaxCards
    /\ LET w == [wk EXCEPT !.count = @ + 1]
       IN  wk' = IF w.pc = "wait" /\ w.count > w.previousCount
                 THEN WaitSettled(w, w.count) ELSE w
    /\ UNCHANGED <<state, stored, sh, ph, ch, closed>>

\* Line 242: the timer of the wait fires.
WaitTimedOut ==
    /\ wk.pc = "wait"
    /\ wk' = WaitSettled(wk, wk.count)
    /\ UNCHANGED <<state, stored, sh, ph, ch, closed>>

\* Line 276: the pause after an increase is over.
PauseDone ==
    /\ wk.pc = "sleep"
    /\ wk' = [wk EXCEPT !.pc = "head"]
    /\ UNCHANGED <<state, stored, sh, ph, ch, closed>>

\* The page drops, hides or disables its load-more control.
ControlGone ==
    /\ wk.pc # "done"
    /\ wk.button
    /\ wk' = [wk EXCEPT !.button = FALSE]
    /\ UNCHANGED <<state, stored, sh, ph, ch, closed>>

ExpandNext ==
    \/ ExpandHead
    \/ CardAdded
    \/ WaitTimedOut
    \/ PauseDone
    \/ ControlGone

ExpandSpec == ExpandInit /\ [][ExpandNext]_vars

\* ------------------------------------------------- the published snapshots
\* The status snapshots of a run and of the run that follows it.  In this
\* specification stored is the storage area with both records (config and
\* status, the status being the snapshot persisted and broadcast last), and
\* an activation of processQueue also keeps the counters that
\* finaliseScraping computes when it is called (lines 752-754).  The
\* requests carry no options, the user does not close the tab, and a second
\* startScraping request arrives once the first has called processQueue
\* (two requests that overlap before the flag is set are followed in Spec).
updateStatusCounts(st, message, total, processed, pending) ==
    [updateStatus(st, message) EXCEPT !.total = total,
                                      !.processed = processed,
                                      !.pending = pending]

NoRun == NoWorker @@ [total |-> 0, processed |-> 0, pending |-> 0]

RunInit ==
    /\ state = InitialState(DefaultDelayMs, DefaultMaxRetries)
    /\ stored = [config |-> ConfigOf(state), status |-> updateStatus(state, "")]
    /\ sh = [i \in Starts |-> NoStart]
    /\ wk = [i \in Starts |-> NoRun]
    /\ ph = [j \in Stops |-> NoStop]
    /\ ch = [k \in Configs |-> NoUpdate]
    /\ closed = 0

\* The outcomes of resuming an activation of processQueue suspended at
\* w.pc: the state and the activation at its next suspension.
Resumptions(st, w) ==
    CASE w.pc = "ensure" ->
           {[st |-> [st EXCEPT !.scraperTabId = ScraperTab],
             w |-> [w EXCEPT !.pc = "extract"]]}
           \cup {AttemptFailed([st EXCEPT !.scraperTabId = tab], w, ScrapeError) :
                    tab \in {NoTab, ScraperTab}}
      [] w.pc = "extract" ->
           {ProfileScraped(st, w),
            AttemptFailed(st, w, ScrapeError),
            AttemptFailed(cleanupScraperTab(st), w, ScrapeError)}
      [] w.pc = "retrydelay" ->
           {[st |-> [st EXCEPT !.retrying = [attempt |-> w.attempt + 1,
                                             total |-> w.attempts,
                                             url |-> w.url]],
             w |-> [w EXCEPT !.pc = "ensure", !.attempt = @ + 1]]}
      [] w.pc = "status" ->
           {IF st.stopRequested \/ st.currentIndex >= Len(st.queue)
            THEN finaliseScraping(st, w)
            ELSE IF st.delayMs > 0
                 THEN [st |-> st, w |-> [w EXCEPT !.pc = "delay"]]
                 ELSE processQueue(st, w)}
      [] w.pc \in {"delay", "skipstatus"} -> {processQueue(st, w)}
      [] w.pc = "fcleanup" -> {finaliseAfterCleanup(st, w)}
      [] w.pc = "download" ->
           {[st |-> st, w |-> [w EXCEPT !.pc = "fstatus"]],
            [st |-> recordError(st, DownloadKey, DownloadError),
             w |-> [w EXCEPT !.pc = "fstatus"]]}
      [] w.pc \in {"fempty", "fstatus"} ->
           {[st |-> resetState(st), w |-> [NoRun EXCEPT !.pc = "done"]]}

\* finaliseScraping, lines 752-754: the counters are computed when it is
\* called, before its first await.
Captured(st, w, next) ==
    IF w.pc \notin FinalisePcs /\ next.pc \in FinalisePcs
    THEN LET total == Len(st.queue)
             processed == Min(st.currentIndex, total)
         IN  [next EXCEPT !.total = total,
                          !.processed = processed,
                          !.pending = Max(total - processed, 0)]
    ELSE next

\* The snapshot in the storage once the activation, resumed at pc, is
\* suspended again as w in the state st: the calls of updateStatus at lines
\* 730, 759, 790, 801, 843 and 884.
Publication(status, pc, st, w) ==
    CASE w.pc = "status" -> updateStatus(st, "Processed")
      [] w.pc = "skipstatus" -> updateStatus(st, "Skipped duplicate link")
      [] w.pc = "fempty" ->
           updateStatusCounts(st, "No data was collected.",
                              w.total, w.processed, w.pending)
      [] w.pc = "fstatus" ->
           updateStatusCounts(st, IF Len(st.errors) > 0 /\ st.errors[Len(st.errors)].url = DownloadKey
                                  THEN "Failed to save CSV"
                                  ELSE "Scraping completed.",
                              w.total, w.processed, w.pending)
      [] w.pc = "ensure" /\ pc = "retrydelay" ->
           updateStatus(st, "Retrying current profile")
      [] OTHER -> status

\* An activation goes from st and w to the outcome r.
RunStep(i, st, w, r) ==
    LET next == Captured(st, w, r.w)
    IN  /\ state' = r.st
        /\ wk' = [wk EXCEPT ![i] = next]
        /\ stored' = [stored EXCEPT !.status = Publication(@, w.pc, r.st, next)]

\* A browser primitive awaited by activation i of processQueue completes.
Resume(i) ==
    /\ wk[i].pc \in LoopPcs \cup FinalisePcs
    /\ \E r \in Resumptions(state, wk[i]) : RunStep(i, state, wk[i], r)
    /\ UNCHANGED <<sh, ph, ch, closed>>

\* handleStartScraping, lines 915-922.
RunStart(i) ==
    /\ NextRequest(sh, i)
    /\ i = 1 \/ \E m \in Starts : wk[m].pc # "none"
    /\ sh' = [sh EXCEPT ![i] = IF state.isScraping
                               THEN [@ EXCEPT !.pc = "done", !.reply = "already-running"]
                               ELSE [@ EXCEPT !.pc = "query"]]
    /\ UNCHANGED <<state, stored, wk, ph, ch, closed>>

\* Lines 936-938: applyConfig with persist, then GET_DOCTOR_LINKS is sent.
RunApplyConfig(i, st) ==
    /\ state' = applyConfig(st, sh[i].options)
    /\ stored' = [stored EXCEPT !.config = ConfigOf(state')]
    /\ sh' = [sh EXCEPT ![i].pc = "links"]

\* Lines 922-936: queryActiveTab answered (no active tab, or the listing
\* page), or the removeTab of cleanupScraperTab answered.
RunQueryDone(i) ==
    /\ sh[i].pc \in {"query", "cleanup"}
    /\ IF sh[i].pc = "cleanup"
       THEN RunApplyConfig(i, state)
       ELSE \/ /\ sh' = [sh EXCEPT ![i].pc = "done", ![i].reply = "error: no active tab"]
               /\ UNCHANGED <<state, stored>>
            \/ IF CleanupSuspends(state)
               THEN /\ state' = cleanupScraperTab(state)
                    /\ sh' = [sh EXCEPT ![i].pc = "cleanup"]
                    /\ stored' = stored
               ELSE RunApplyConfig(i, state)
    /\ UNCHANGED <<wk, ph, ch, closed>>

\* Lines 938-966: getDoctorLinksFromTab answered.  Without links the state
\* is reset and the no-links status published; with links the run is
\* installed and its first status published.
RunLinksDone(i) ==
    /\ sh[i].pc = "links"
    /\ \E rawLinks \in PageLinks :
          LET links == UniqueLinks(rawLinks, <<>>)
          IN  IF Len(links) = 0
              THEN /\ state' = resetState(state)
                   /\ stored' = [stored EXCEPT !.status =
                                    updateStatusCounts(state', "No doctor links found on this page.",
                                                       0, 0, 0)]
                   /\ sh' = [sh EXCEPT ![i].pc = "done", ![i].reply = "no-links"]
              ELSE /\ state' = InstallRun(state, links)
                   /\ stored' = [stored EXCEPT !.status =
                                    updateStatusCounts(state', "Found doctor profiles. Starting...",
                                                       Len(links), 0, Len(links))]
                   /\ sh' = [sh EXCEPT ![i].pc = "status"]
    /\ UNCHANGED <<wk, ph, ch, closed>>

\* Lines 961-981: the first status is written; processQueue is called and
\* runs to its first suspension; the request is answered.
RunStartStatusDone(i) ==
    /\ sh[i].pc = "status"
    /\ RunStep(i, state, NoRun, processQueue(state, NoRun))
    /\ sh' = [sh EXCEPT ![i].pc = "done", ![i].reply = "started"]
    /\ UNCHANGED <<ph, ch, closed>>

\* handleStopScraping, lines 987-991: the idle branch after its teardown.
RunStopIdle(j) ==
    /\ state' = resetState(state)
    /\ stored' = [stored EXCEPT !.status = updateStatusCounts(state', "Idle.", 0, 0, 0)]
    /\ ph' = [ph EXCEPT ![j].pc = "done", ![j].reply = "idle"]

\* handleStopScraping, lines 984-998.
RunStop(j) ==
    /\ NextRequest(ph, j)
    /\ IF ~state.isScraping
       THEN IF CleanupSuspends(state)
            THEN /\ state' = cleanupScraperTab(state)
                 /\ ph' = [ph EXCEPT ![j].pc = "cleanup"]
                 /\ stored' = stored
            ELSE RunStopIdle(j)
       ELSE /\ state' = [state EXCEPT !.stopRequested = TRUE]
            /\ stored' = [stored EXCEPT !.status =
                             updateStatus(state', "Stop requested.")]
            /\ ph' = [ph EXCEPT ![j].pc = "done", ![j].reply = "stopping"]
    /\ UNCHANGED <<sh, wk, ch, closed>>

\* Lines 988-991: removeTab answered.
RunStopCleanupDone(j) ==
    /\ ph[j].pc = "cleanup"
    /\ RunStopIdle(j)
    /\ UNCHANGED <<sh, wk, ch, closed>>

\* handleUpdateConfig, line 1027: applyConfig with persist.
RunConfig(k) ==
    /\ NextRequest(ch, k)
    /\ \E config \in ConfigInputs :
          /\ state' = applyConfig(state, config)
          /\ stored' = [stored EXCEPT !.config = ConfigOf(state')]
    /\ ch' = [ch EXCEPT ![k].pc = "status"]
    /\ UNCHANGED <<sh, wk, ph, closed>>

\* Lines 1028-1029: the Config is persisted; updateStatus({}) is called and
\* the request answered.
RunConfigPersisted(k) ==
    /\ ch[k].pc = "status"
    /\ stored' = [stored EXCEPT !.status = updateStatus(state, "")]
    /\ ch' = [ch EXCEPT ![k].pc = "done", ![k].reply = ConfigOf(state)]
    /\ UNCHANGED <<state, sh, wk, ph, closed>>

RunNext ==
    \/ \E i \in Starts : RunStart(i)
    \/ \E i \in Starts : RunQueryDone(i)
    \/ \E i \in Starts : RunLinksDone(i)
    \/ \E i \in Starts : RunStartStatusDone(i)
    \/ \E j \in Stops : RunStop(j)
    \/ \E j \in Stops : RunStopCleanupDone(j)
    \/ \E k \in Configs : RunConfig(k)
    \/ \E k \in Configs : RunConfigPersisted(k)
    \/ \E i \in Starts : Resume(i)

RunSpec == RunInit /\ [][RunNext]_vars

\* ---------------------------------------------------------- cleanDoctorCode
\* The code of a profile from the page to the record: extractCodeToken in
\* the content script, then normaliseDoctorData in the background (its
\* normaliseText, lines 59-75, is the one of the content script).  In this
\* specification wk is one profile: the text of its code element, where
\* the code is (called, returned by the extractor, stored in the record),
\* the extractor's token and the code of the record.
cleanDoctorCode(rawValue) ==
    LET text == normaliseText(String(rawValue))
        digits == SelectSeq(text, IsDigit)
    IN  IF text = <<>> THEN <<>>
        ELSE IF digits # <<>> THEN digits ELSE text

RecordInit ==
    /\ state = InitialState(DefaultDelayMs, DefaultMaxRetries)
    /\ stored = ConfigOf(state)
    /\ sh = [i \in Starts |-> NoStart]
    /\ wk \in {[text |-> text, pc |-> "called", token |-> <<>>, code |-> <<>>] :
                  text \in CodeTexts}
    /\ ph = [j \in Stops |-> NoStop]
    /\ ch = [k \in Configs |-> NoUpdate]
    /\ closed = 0

\* normaliseDoctorData, line 194: code: cleanDoctorCode(data.code || ...).
StoreCode ==
    /\ wk.pc = "returned"
    /\ wk' = [wk EXCEPT !.pc = "stored", !.code = cleanDoctorCode(wk.token)]
    /\ UNCHANGED <<state, stored, sh, ph, ch, closed>>

RecordNext == ExtractToken \/ StoreCode

RecordSpec == RecordInit /\ [][RecordNext]_vars

\* ------------------------------------------------------------- properties
Workers == Starts
BoundaryPcs == {"skipstatus", "status", "delay"}
Last(seq) == seq[Len(seq)]
Urls(records) == [k \in 1..Len(records) |-> records[k].url]
Prefix(seq, n) == SubSeq(seq, 1, n)

\* C1: at any time at most one profile visit is in flight and at most one
\* activation of processQueue is inside the queue loop, whatever the
\* interleaving of the requests with the controller's suspension points.
C1_SingleWorker ==
    /\ Cardinality({i \in Workers : wk[i].pc \in InFlightPcs}) <= 1
    /\ Cardinality({i \in Workers : wk[i].pc \in LoopPcs}) <= 1

\* C2: at every boundary of the queue loop the results hold exactly one
\* record per queue entry the cursor has passed, in queue order and under
\* the queued URL: results.length equals the cursor.
C2_OneRecordPerEntry ==
    \A i \in Workers :
        wk[i].pc \in BoundaryPcs =>
            /\ Len(state.results) = state.currentIndex
            /\ state.currentIndex <= Len(state.queue)
            /\ Urls(state.results) = Prefix(state.queue, state.currentIndex)

\* C3: scrapeDoctorProfileWithRetries makes maxRetries + 1 attempts, with
\* maxRetries as it is when the URL is taken up: it starts with attempt 1 of
\* maxRetries + 1, every retry is the next attempt and is made only while
\* attempts remain, a URL is given up exactly after attempt maxRetries + 1
\* and then gets exactly one placeholder record (empty name, non-null
\* error), and a URL scraped at an attempt k <= maxRetries + 1 gets exactly
\* one record with error null and no further attempt.
C3_Begins(i) == wk[i].pc \notin InFlightPcs /\ wk'[i].pc \in InFlightPcs
C3_Retries(i) == wk[i].pc = "retrydelay" /\ wk'[i].pc = "ensure"
C3_Completes(i) == wk[i].pc \in InFlightPcs /\ wk'[i].pc \notin InFlightPcs

C3_RetryBound ==
    [][\A i \in Workers :
        /\ C3_Begins(i) =>
              /\ wk'[i].attempt = 1
              /\ wk'[i].attempts = state.maxRetries + 1
        /\ C3_Retries(i) =>
              /\ wk[i].attempt < wk[i].attempts
              /\ wk'[i].attempt = wk[i].attempt + 1
              /\ wk'[i].attempts = wk[i].attempts
              /\ wk'[i].url = wk[i].url
        /\ wk[i].pc = "ensure" /\ wk'[i].pc = "retrydelay" => wk[i].attempt < wk[i].attempts
        /\ wk[i].pc = "extract" /\ wk'[i].pc = "retrydelay" => wk[i].attempt < wk[i].attempts
        /\ C3_Completes(i) =>
              /\ wk'[i].pc = "status"
              /\ Len(state'.results) = Len(state.results) + 1
              /\ Prefix(state'.results, Len(state.results)) = state.results
              /\ Last(state'.results).url = wk[i].url
              /\ Last(state'.results).error # NoError =>
                    /\ wk[i].attempt = wk[i].attempts
                    /\ Last(state'.results).name = ""
              /\ Last(state'.results).error = NoError =>
                    /\ wk[i].pc = "extract"
                    /\ wk[i].attempt <= wk[i].attempts
    ]_vars

\* C3 witness: with maxRetries = 2 a URL was given up after its third
\* attempt and its placeholder is the last record.
C3_Witness ==
    \E i \in Workers :
        /\ wk[i].pc = "status"
        /\ wk[i].attempt = 3
        /\ wk[i].attempts = 3
        /\ Len(state.results) > 0
        /\ Last(state.results).url = wk[i].url
        /\ Last(state.results).error # NoError

\* C4: once stopScraping has answered stopping, the activation of
\* processQueue it addressed begins no further queue entry.
C4_NoEntryAfterStop == \A i \in Workers : ~wk[i].lateEntry

\* C5: a run that a stop request ends with at least one record exports
\* exactly the records it had when the queue loop was left.
C5_PartialExportComplete ==
    \A i \in Workers :
        wk[i].partial /\ wk[i].atExit # <<>> =>
            /\ wk[i].pc # "fempty"
            /\ wk[i].pc = "download" => wk[i].rows = wk[i].atExit

\* C6: every started run returns to Idle: once a run is installed, its
\* activation of processQueue ends and leaves the controller with
\* isScraping = false, stopRequested = false and retrying = null; the
\* controller does not stay in Running.
Idle ==
    /\ ~state.isScraping
    /\ ~state.stopRequested
    /\ state.retrying = NoRetry

C6_RunsReturnToIdle ==
    /\ \A i \in Workers :
          (sh[i].pc = "status" \/ wk[i].pc \notin {"none", "done"})
              ~> (wk[i].pc = "done" /\ Idle)
    /\ state.isScraping ~> Idle

\* C6 witness: a run in which a stop was requested has ended, nothing is
\* suspended any more, and the controller is idle.
C6_Witness ==
    /\ Idle
    /\ \E i \in Workers : sh[i].reply = "started" /\ wk[i].pc = "done"
    /\ \A i \in Workers : wk[i].pc \in {"none", "done"}
    /\ \E j \in Stops : ph[j].reply = "stopping"

\* C7: an unstopped run over n links exports n + 1 lines, one record per
\* link, and the error list and the error column name exactly the failing
\* links.
DiscoveredLinks == UniqueLinks(<<LinkForeign, LinkA, LinkAHttpFrag, LinkB>>, <<>>)
FailedUrls(rows) == {rows[k].url : k \in {n \in 1..Len(rows) : rows[n].error # NoError}}
ErrorKeys(st) == {st.errors[k].url : k \in 1..Len(st.errors)}

C7_FailuresDoNotAbort ==
    \A i \in Workers :
        wk[i].pc = "download" /\ ~wk[i].partial /\ Issued(ph) = 0 =>
            /\ Urls(wk[i].rows) = DiscoveredLinks
            /\ Len(CsvFile(wk[i]).text) = Len(DiscoveredLinks) + 1
            /\ Len(state.errors) = Cardinality(FailedUrls(wk[i].rows))
            /\ ErrorKeys(state) = FailedUrls(wk[i].rows)
            /\ \A k \in 1..Len(wk[i].rows) :
                  (CsvFile(wk[i]).text[k + 1][8] # "") = (wk[i].rows[k].error # NoError)

\* C8 as stated: a rejected startScraping request starts no run and leaves
\* the job state and the Config, in memory and persisted, as they were.
Rejections ==
    {"already-running", "error: no active tab", "error: not a nobat.ir page",
     "error: no links answer"}
Rejected(i) == sh[i].pc = "done" /\ sh[i].reply \in Rejections

C8_RejectedStartChangesNothing ==
    \A i \in Starts :
        Rejected(i) =>
            /\ wk[i].pc = "none"
            /\ ~sh[i].wroteJob
            /\ ~sh[i].wroteConfig

\* C8 amended: a rejected startScraping request starts no run and leaves the
\* job state as it was; it leaves the Config as it was when it is rejected
\* before link discovery (already running, no active tab, wrong host).  A
\* request rejected because link discovery failed has by then applied and
\* persisted the Config of its payload.
C8_RejectedStartKeepsJob ==
    \A i \in Starts :
        Rejected(i) =>
            /\ wk[i].pc = "none"
            /\ ~sh[i].wroteJob
            /\ sh[i].reply # "error: no links answer" => ~sh[i].wroteConfig

\* C8 witness: link discovery failed for a request whose payload had
\* changed the Config, while a run was in progress.
C8_Witness ==
    \E i \in Starts :
        /\ sh[i].reply = "error: no links answer"
        /\ sh[i].wroteConfig
        /\ state.isScraping
        /\ Len(state.results) > 0

\* C9: a stopScraping request after the first one is answered stopping or
\* idle and takes nothing away from what a finalising run exports.
C9_StopIdempotent ==
    \A j \in Stops :
        /\ ph[j].pc = "done" => ph[j].reply \in {"stopping", "idle"}
        /\ j > 1 => ~ph[j].dropped

\* C10: the export is named nobat-doctors-partial exactly when a stop request
\* ended the run before the cursor reached the end of the queue.
C10_PartialPrefix ==
    \A i \in Workers :
        wk[i].pc = "download" =>
            ( CsvFile(wk[i]).prefix = "nobat-doctors-partial"
              <=> (wk[i].partial /\ ~wk[i].complete) )

\* C11: a queue entry whose URL is in visited is skipped.  The entry an
\* activation begins to scrape is the one at the cursor and was not in
\* visited; the step that skips an entry finds its URL in visited, advances
\* the cursor by one, appends no record and starts no attempt; and after
\* the skip the loop goes on without the inter-profile delay.
C11_SkipVisited ==
    [][\A i \in Workers :
        /\ wk[i].pc \notin InFlightPcs /\ wk'[i].pc \in InFlightPcs =>
              /\ wk'[i].url = state.queue[state.currentIndex + 1]
              /\ wk'[i].url \notin state.visited
        /\ wk[i].pc # "skipstatus" /\ wk'[i].pc = "skipstatus" =>
              /\ state.queue[state.currentIndex + 1] \in state.visited
              /\ state'.currentIndex = state.currentIndex + 1
              /\ state'.results = state.results
              /\ state'.visited = state.visited
              /\ wk'[i].attempt = wk[i].attempt
        /\ wk[i].pc = "skipstatus" => wk'[i].pc \notin {"delay"} \cup (InFlightPcs \ {"ensure"})
    ]_vars

\* C11 witness: an activation has skipped an entry and nothing was recorded
\* for the entry by the skip.
C11_Witness ==
    \E i \in Workers :
        /\ wk[i].pc = "skipstatus"
        /\ state.currentIndex > Len(state.results)

\* C12: while an activation of processQueue is in the queue loop the cursor
\* never decreases and never exceeds the queue length, and visited only
\* grows.
C12_CursorMonotone ==
    [][\A i \in Workers :
        wk[i].pc \in LoopPcs /\ wk'[i].pc \in LoopPcs =>
            /\ state'.currentIndex >= state.currentIndex
            /\ state'.currentIndex <= Len(state'.queue)
            /\ state.visited \subseteq state'.visited
    ]_vars

\* C13: the error list holds at most one entry per key.  recordError with a
\* message leaves exactly one entry for the key, holding that message;
\* recordError with the empty message, clearError, and the successful scrape
\* of a URL leave no entry for the key; the entries of the other keys are
\* untouched.
EntriesOf(errors, url) == SelectSeq(errors, LAMBDA e : e.url = url)
OthersOf(errors, url) == SelectSeq(errors, LAMBDA e : e.url # url)
UniqueKeys(errors) ==
    \A a, b \in 1..Len(errors) : errors[a].url = errors[b].url => a = b

C13_OneEntryPerKey ==
    [][/\ UniqueKeys(state'.errors)
       /\ \A url \in ErrKeys :
             /\ \A message \in ErrMessages :
                   ErrRecord(url, message) =>
                       /\ EntriesOf(state'.errors, url) =
                              IF message = "" THEN <<>>
                              ELSE <<[url |-> url, message |-> message]>>
                       /\ OthersOf(state'.errors, url) = OthersOf(state.errors, url)
             /\ ErrClear(url) \/ (url \in {LinkA, LinkB} /\ ErrScraped(url)) =>
                   /\ EntriesOf(state'.errors, url) = <<>>
                   /\ OthersOf(state'.errors, url) = OthersOf(state.errors, url)
    ]_vars

\* C13 witness: a URL that had failed was scraped and has no entry, while
\* the entries of the sentinel keys are all there, one each.
C13_Witness ==
    /\ Len(state.results) = 1
    /\ state.results[1].url = LinkA
    /\ EntriesOf(state.errors, LinkA) = <<>>
    /\ Len(state.errors) = 4

\* C14: the Config in memory always holds a non-negative integer delayMs and
\* an integer maxRetries in 0..5; a field that is no non-negative number
\* (absent, not numeric, negative) keeps the value it had, and a maxRetries
\* above the limit becomes 5.
ValidConfig(st) ==
    /\ st.delayMs \in Nat
    /\ st.maxRetries \in 0..MAX_RETRY_LIMIT
InvalidField(value) ==
    \/ value.kind \in {"undefined", "nan", "null", "infinite"}
    \/ value.kind \in {"num", "frac"} /\ value.v < 0
Oversized(value) == value.kind = "num" /\ value.v > MAX_RETRY_LIMIT

C14_ConfigValidated ==
    [][/\ ValidConfig(state) /\ ValidConfig(state')
       /\ \A config \in RequestConfigs :
             CfgApply(config) =>
                 /\ InvalidField(config.delayMs) => state'.delayMs = state.delayMs
                 /\ InvalidField(config.maxRetries) =>
                        state'.maxRetries = state.maxRetries
                 /\ Oversized(config.maxRetries) =>
                        state'.maxRetries = MAX_RETRY_LIMIT
    ]_vars

TabGone ==
    \/ closed' # closed
    \/ \E i \in Starts : sh[i].pc # "cleanup" /\ sh'[i].pc = "cleanup"
    \/ \E j \in Stops : ph[j].pc # "cleanup" /\ ph'[j].pc = "cleanup"
    \/ \E i \in Starts :
          \/ wk[i].pc # "fcleanup" /\ wk'[i].pc = "fcleanup"
          \/ wk[i].pc \in {"ensure", "extract"} /\ wk'[i] # wk[i]

C16_OneScraperTab ==
    [][state.scraperTabId # NoTab /\ state'.scraperTabId = NoTab => TabGone]_vars

\* C17: when both download paths fail the failure is recorded under the
\* download key with the results untouched, and once the failure has been
\* published the results still hold every record the run had accumulated.
C17_FailedExportKeepsResults ==
    [][\A i \in Workers :
        /\ wk[i].pc = "download" /\ wk'[i].pc = "fstatus"
              /\ state'.errors # state.errors =>
              /\ EntriesOf(state'.errors, DownloadKey) =
                     <<[url |-> DownloadKey, message |-> DownloadError]>>
              /\ state'.results = state.results
        /\ wk[i].pc = "fstatus" /\ wk'[i].pc = "done"
              /\ EntriesOf(state.errors, DownloadKey) # <<>> =>
              /\ state'.results = state.results
              /\ state'.results = wk[i].rows
    ]_vars

\* C18: downloadCsv hands the same text to both paths: the content with the
\* BOM in front, added only when the content does not begin with it (so a
\* content without BOM carries it exactly once).  The data URL is tried if
\* and only if the blob URL failed, an error is raised only when both have
\* failed, and the file written is the UTF-8 text whichever path wrote it.
StripBom(text) == IF Len(text) > 0 /\ text[1] = Bom THEN Tail(text) ELSE text
BomCount(text) == Cardinality({n \in 1..Len(text) : text[n] = Bom})

C18_SameFileOnBothPaths ==
    /\ wk.csvText[1] = Bom
    /\ StripBom(wk.csvText) = StripBom(wk.content)
    /\ BomCount(wk.content) = 0 => BomCount(wk.csvText) = 1
    /\ wk.blobFailed <=> wk.pc = "data" \/ wk.written = "data" \/ wk.pc = "raised"
    /\ wk.raised # "none" <=> wk.pc = "raised"
    /\ wk.pc = "returned" <=>
           /\ wk.written # "none"
           /\ wk.file = BlobBytes(wk.csvText)
           /\ wk.file = Utf8(Bom) \o BlobBytes(StripBom(wk.content))

\* C18 witness: after a failure of the blob URL the data URL wrote a file
\* whose content holds a percent sign, a digit and a Persian letter.
C18_Witness ==
    /\ wk.written = "data"
    /\ wk.content = <<37, 52, 1583>>
    /\ wk.file = <<239, 187, 191, 37, 52, 216, 175>>

\* C19: the status record of the storage follows every transition of the
\* run; after a restart in the middle of the run the queue is not resumed,
\* and a getStatus request made after the restart is answered with the
\* counts, the last doctor and the errors of the status record that was in
\* the storage when the process restarted.
Progress(status) ==
    [ total |-> status.total, processed |-> status.processed,
      pending |-> status.pending, lastDoctor |-> status.lastDoctor,
      errors |-> status.errors ]

C19_RestartReportsLastSnapshot ==
    /\ wk.pc = "ready" /\ ~wk.restarted =>
           Progress(stored.status) = Progress(updateStatus(state, ""))
    /\ wk.restarted => ~state.isScraping /\ state.queue = <<>>
    /\ \A k \in Queries :
           ch[k].pc = "done" /\ ch[k].restarted =>
               Progress(ch[k].reply) = Progress(wk.found)

\* C20: normaliseText answers for every value, null and undefined giving the
\* empty string.  Its result holds the characters of the value that are
\* neither whitespace nor the zero-width non-joiner, in their order and with
\* every digit of the two locale alphabets as its ASCII digit; it holds no
\* zero-width non-joiner, does not begin or end with whitespace, and its
\* only whitespace is single spaces.  Applied to its own result it returns
\* that result.
AsciiDigit(c) ==
    IF c \in {1637, 1781} THEN 53 ELSE c
Letters(text) ==
    SelectSeq(text, LAMBDA c : c \notin WhiteSpace /\ c # Zwnj)

C20_NormaliseTextIdempotent ==
    wk.applied >= 1 =>
        /\ wk.value.kind \in {"null", "undefined"} => wk.once = <<>>
        /\ Letters(wk.once) =
               [n \in 1..Len(Letters(wk.value.text)) |->
                   AsciiDigit(Letters(wk.value.text)[n])]
        /\ \A n \in 1..Len(wk.once) :
               /\ wk.once[n] \notin ArabicIndicDigits \cup PersianDigits \cup {Zwnj}
               /\ wk.once[n] \in WhiteSpace =>
                      /\ wk.once[n] = 32
                      /\ n \notin {1, Len(wk.once)}
                      /\ wk.once[n + 1] \notin WhiteSpace
        /\ wk.applied >= 2 => wk.out = wk.once

\* C20 witness: a string with a digit of each locale alphabet, a space and
\* a zero-width non-joiner was normalised twice.
C20_Witness ==
    /\ wk.applied = 2
    /\ wk.value = String(<<1637, 32, Zwnj, 1781>>)
    /\ wk.out = <<53, 32, 53>>

\* C21: for a text made of label words without digit, then a single letter,
\* optional whitespace and a run of digits, and after the run nothing, or
\* words without digit set off from it, extractCodeToken returns that letter
\* followed by these digits, and no other character.
AllIn(text, from, to, P(_)) == \A n \in from..to : P(text[n])
IsSpace(c) == c \in WhiteSpace
NotDigit(c) == ~IsDigit(c)

LabelledCode(text, i, j, k) ==
    /\ AllIn(text, 1, i - 1, NotDigit)
    /\ IsLetter(text[i])
    /\ i > 1 /\ ~IsLetter(text[i - 1])
    /\ AllIn(text, i + 1, j - 1, IsSpace)
    /\ AllIn(text, j, k, IsDigit)
    /\ k < Len(text) => ~IsLetter(text[k + 1])
    /\ AllIn(text, k + 1, Len(text), NotDigit)

C21_LetterPrefixPreserved ==
    wk.pc = "returned" =>
        \A i, j, k \in 1..Len(wk.text) :
            i < j /\ j <= k /\ LabelledCode(wk.text, i, j, k) =>
                wk.token = <<wk.text[i]>> \o SubSeq(wk.text, j, k)

\* C28: extractCodeToken returns the first token of the text that holds a
\* letter and a digit, as it is, and the first token of digits only when no
\* token holds both.
FirstToken(tokens, P(_)) ==
    LET hits == {n \in 1..Len(tokens) : P(tokens[n])}
    IN  IF hits = {} THEN <<>>
        ELSE tokens[CHOOSE a \in hits : \A b \in hits : a <= b]
IsMixed(token) == HasDigit(token) /\ HasLetter(token)

C28_MixedTokenFirst ==
    wk.pc = "returned" =>
        LET tokens == SplitTokens(wk.text, <<>>)
        IN  wk.token = IF FirstToken(tokens, IsMixed) # <<>>
                       THEN FirstToken(tokens, IsMixed)
                       ELSE FirstToken(tokens, HasDigit)

\* C22: over structured entries whose identifier is a list of candidates,
\* extractDoctorCode returns the code token of the first candidate, in
\* source order, that holds a token with a letter and a digit.
Leaves(value) ==
    IF value.kind = "string" THEN <<value.text>>
    ELSE [n \in 1..Len(value.items) |-> value.items[n].text]
RECURSIVE ListLeaves(_)
ListLeaves(items) ==
    IF items = <<>> THEN <<>> ELSE Leaves(Head(items)) \o ListLeaves(Tail(items))
MixedLeaf(text) == IsMixed(extractCodeToken(text))

C22_FirstCandidateWins ==
    wk.pc = "returned" /\ wk.elements = <<>>
        /\ wk.entries[1].identifier.kind = "array" =>
        LET leaves == ListLeaves(wk.entries[1].identifier.items)
        IN  FirstToken(leaves, MixedLeaf) # <<>> =>
                wk.code = extractCodeToken(FirstToken(leaves, MixedLeaf))

\* C23: over a structured entry whose identifier is a key-value object,
\* extractDoctorCode returns the code token found in the values of the
\* object, and never the rendering of the object.
CodedLeaf(text) == extractCodeToken(text) # <<>>

C23_ObjectValuesScanned ==
    wk.pc = "returned" /\ wk.elements = <<>>
        /\ wk.entries[1].identifier.kind = "object" =>
        LET leaves == Leaves(wk.entries[1].identifier)
        IN  /\ wk.code # ObjectText
            /\ FirstToken(leaves, CodedLeaf) # <<>> =>
                   wk.code = extractCodeToken(FirstToken(leaves, CodedLeaf))

\* C24: the phone list holds no two entries with the same digit-key (the
\* text with everything but digits and + removed).  Its entries are, in the
\* order of the values, the normalised texts of the values that are not
\* blank and whose key no earlier such value has: values that differ in
\* formatting only collapse to the one seen first.
DigitKey(text) ==
    SelectSeq([n \in 1..Len(text) |-> DIGIT_MAP(text[n])],
              LAMBDA c : IsDigit(c) \/ c = 43)
Blank(text) == \A n \in 1..Len(text) : text[n] \in WhiteSpace
Retained(values) ==
    {n \in 1..Len(values) :
        /\ ~Blank(values[n])
        /\ \A m \in 1..(n - 1) :
               Blank(values[m]) \/ DigitKey(values[m]) # DigitKey(values[n])}
RECURSIVE Pick(_, _, _)
Pick(values, keep, n) ==
    IF n > Len(values) THEN <<>>
    ELSE (IF n \in keep THEN <<values[n]>> ELSE <<>>) \o Pick(values, keep, n + 1)

C24_PhonesUniqueByKey ==
    wk.pc = "returned" =>
        /\ \A a, b \in 1..Len(wk.phones) :
               DigitKey(wk.phones[a]) = DigitKey(wk.phones[b]) => a = b
        /\ LET kept == Pick(wk.values, Retained(wk.values), 1)
           IN  wk.phones = [n \in 1..Len(kept) |-> normalisePhoneValue(kept[n])]

\* C24 witness: of three spellings of one number (spaced, in Persian
\* digits, hyphenated) the first is the one retained.
C24_Witness ==
    /\ wk.pc = "returned"
    /\ wk.values = <<<<48, 49, 32, 50>>, <<1776, 1777, 1778>>, <<48, 49, 45, 50>>>>
    /\ wk.phones = <<<<48, 49, 32, 50>>>>

\* C24 as stated: the national and the international spelling of a number
\* (01-2 and +9 1 2, as 021-12345678 and +98 21 12345678) also collapse to
\* one entry.
C24_InternationalVariantCollapses ==
    /\ C24_PhonesUniqueByKey
    /\ wk.pc = "returned"
           /\ wk.values = <<<<48, 49, 45, 50>>, <<43, 57, 32, 49, 32, 50>>>> =>
           Len(wk.phones) = 1

\* C25: the office list holds no office whose city, addresses and phones
\* are all empty and no two offices with the same city, addresses and
\* phones; it holds, in the order of the candidates, the first occurrence of
\* every normalised office that is not empty.
EmptyOffice(office) ==
    office.city = <<>> /\ office.addresses = <<>> /\ office.phones = <<>>
FirstOccurrences(offices) ==
    {n \in 1..Len(offices) :
        /\ ~EmptyOffice(offices[n])
        /\ \A m \in 1..(n - 1) : offices[m] # offices[n]}

C25_OfficesUnique ==
    wk.pc = "returned" =>
        LET candidates == [n \in 1..Len(wk.offices) |-> NormalisedOffice(wk.offices[n])]
        IN  /\ \A n \in 1..Len(wk.normalised) : ~EmptyOffice(wk.normalised[n])
            /\ \A a, b \in 1..Len(wk.normalised) :
                   wk.normalised[a] = wk.normalised[b] => a = b
            /\ wk.normalised = Pick(candidates, FirstOccurrences(candidates), 1)

\* C26: every URL of the queue is absolute, on nobat.ir or a subdomain of
\* it, has the scheme https and no fragment; no two entries of the queue
\* differ only by the scheme or the fragment of the links they come from;
\* a link on another host, or one that does not parse, is not in the queue.
Canonical(url) ==
    /\ url.scheme = "https"
    /\ url.host \in {"nobat.ir", "www.nobat.ir"}
    /\ url.frag = ""
SamePage(a, b) == a.host = b.host /\ a.path = b.path

C26_QueueCanonical ==
    wk.pc \in {"queued", "no-links"} =>
        /\ \A n \in 1..Len(state.queue) : Canonical(state.queue[n])
        /\ \A a, b \in 1..Len(state.queue) :
               SamePage(state.queue[a], state.queue[b]) => a = b

\* C27: every data line of the CSV has as many fields as the header line,
\* and for every office position the header line has as many address
\* (phone) columns as the greatest number of distinct addresses (phones)
\* any record has at that position.
RECURSIVE FieldCount(_, _)
FieldCount(line, quoted) ==
    IF line = <<>> THEN 1
    ELSE IF Head(line) = 34 THEN FieldCount(Tail(line), ~quoted)
    ELSE IF Head(line) = 44 /\ ~quoted THEN 1 + FieldCount(Tail(line), quoted)
    ELSE FieldCount(Tail(line), quoted)
Columns(header, office, field) ==
    Cardinality({n \in 1..Len(header) :
                    header[n].office = office /\ header[n].field = field})
Distinct(list) ==
    Cardinality({Trim(list[n]) : n \in 1..Len(list)} \ {<<>>})
GreatestDistinct(rows, office, field) ==
    LET having == {r \in 1..Len(rows) : office <= Len(rows[r].offices)}
        counts == {Distinct(IF field = "Address"
                            THEN rows[r].offices[office].addresses
                            ELSE rows[r].offices[office].phones) : r \in having}
    IN  IF counts = {} THEN 0
        ELSE CHOOSE m \in counts : \A k \in counts : k <= m

C27_ColumnsPadToMaximum ==
    wk.pc = "returned" =>
        /\ \A r \in 1..Len(wk.csv.lines) :
               FieldCount(wk.csv.lines[r], FALSE) = Len(wk.csv.header)
        /\ \A office \in 1..MaxCsvOffices :
               \A field \in {"Address", "Phone"} :
                  Columns(wk.csv.header, office, field)
                      = GreatestDistinct(wk.rows, office, field)

\* C29: in every attempt the message is sent a second time exactly when the
\* first send failed with the error of a missing receiver and the injection
\* that follows succeeded, and never a third time; the attempt injects only
\* after that error, and once; after any other error of delivery, a failed
\* injection or a failed second send the attempt is over.
AttemptOver == wk.pc \in {"waiting", "thrown", "returned"}

C29_ResendOnceAfterNoReceiver ==
    /\ wk.sends <= 2 /\ wk.injections <= 1
    /\ wk.injections = 1 => IsNoReceiver(wk.first)
    /\ wk.sends = 2 => IsNoReceiver(wk.first) /\ wk.injected = "injected"
    /\ AttemptOver /\ IsNoReceiver(wk.first) =>
           /\ wk.injections = 1
           /\ wk.injected = "injected" => wk.sends = 2
    /\ AttemptOver /\ wk.first \in SendErrors /\ ~IsNoReceiver(wk.first) =>
           /\ wk.sends = 1 /\ wk.injections = 0
           /\ wk.pc # "returned"
    /\ AttemptOver /\ wk.injected = CannotAccess => wk.sends = 1 /\ wk.pc # "returned"
    /\ AttemptOver /\ wk.second \in SendErrors => wk.pc # "returned"

\* A second send failed after a successful injection, and the attempt is over.
C29_Witness ==
    /\ wk.pc \in {"waiting", "thrown"}
    /\ IsNoReceiver(wk.first) /\ wk.injected = "injected"
    /\ wk.second = PortClosed /\ wk.sends = 2

\* C30: a failed attempt that is not the last one is followed by a wait of
\* max(delayMs, 1000) ms, delayMs as it is when the attempt fails, so of
\* no less than 1000 ms; the last attempt is followed by no wait.
C30_Step ==
    /\ wk.pc # "waiting" /\ wk'.pc = "waiting" =>
           /\ wk.attempt < wk.attempts
           /\ wk'.waited = Append(wk.waited, Max(state.delayMs, 1000))
           /\ wk'.waited[Len(wk'.waited)] >= 1000
    /\ wk'.pc # "waiting" \/ wk.pc = "waiting" => wk'.waited = wk.waited
    /\ wk.pc # "thrown" /\ wk'.pc = "thrown" =>
           /\ wk.attempt = wk.attempts
           /\ Len(wk'.waited) = wk.attempts - 1
    /\ wk.pc = "waiting" /\ wk'.pc = "attempt" => wk'.attempt = wk.attempt + 1

C30_RetryWaitAtLeastOneSecond == [][C30_Step]_vars

\* With delayMs 0 the last of several attempts has failed after waits of
\* 1000 ms.
C30_Witness ==
    /\ wk.pc = "thrown" /\ wk.op = "scrape"
    /\ state.delayMs = 0
    /\ wk.attempts >= 2
    /\ wk.waited # <<>>
    /\ wk.waited[Len(wk.waited)] = 1000

\* C31: after the status publication that ends the processing of a queue
\* entry the activation suspends for the inter-profile delay exactly when
\* delayMs > 0, no stop is requested and entries remain; the delay is taken
\* nowhere else; and no entry is begun while an activation is still in the
\* publication or the delay that follows a processed entry.
C31_Step(i) ==
    /\ wk[i].pc = "status" /\ wk'[i].pc # "status" =>
           IF state.stopRequested \/ state.currentIndex >= Len(state.queue)
           THEN wk'[i].pc \notin {"delay", "skipstatus"} \cup InFlightPcs
           ELSE (state.delayMs > 0 <=> wk'[i].pc = "delay")
    /\ wk[i].pc # "delay" /\ wk'[i].pc = "delay" => wk[i].pc = "status"
    /\ wk[i].pc \notin InFlightPcs /\ wk'[i].pc \in InFlightPcs =>
           \A j \in Workers \ {i} : wk[j].pc \notin {"status", "delay"}

C31_DelayBetweenProfiles == [][\A i \in Workers : C31_Step(i)]_vars

\* C33: cleanupScraperTab suspends in removeTab only when a session is
\* known and forgets the session with the call; whatever removeTab answers
\* the caller goes on; and when the caller goes on scraperTabId is null.
C33_Calls(pc, pc2) == pc # pc2 /\ pc2 \in {"cleanup", "fcleanup"}
C33_Returns(pc, pc2) == pc \in {"cleanup", "fcleanup"} /\ pc2 # pc

C33_TeardownIdempotent ==
    [][/\ \A i \in Starts :
             /\ C33_Calls(sh[i].pc, sh'[i].pc) \/ C33_Calls(wk[i].pc, wk'[i].pc) =>
                    state.scraperTabId # NoTab /\ state'.scraperTabId = NoTab
             /\ C33_Returns(sh[i].pc, sh'[i].pc) \/ C33_Returns(wk[i].pc, wk'[i].pc) =>
                    state.scraperTabId = NoTab
       /\ \A j \in Stops :
             /\ C33_Calls(ph[j].pc, ph'[j].pc) =>
                    state.scraperTabId # NoTab /\ state'.scraperTabId = NoTab
             /\ C33_Returns(ph[j].pc, ph'[j].pc) => state.scraperTabId = NoTab
    ]_vars

\* C32: ensureScraperTab navigates the known session to the URL whenever
\* there is one; it calls createTab after a failed reuse only once the old
\* session was torn down or is gone; a load wait that fails on a freshly
\* created session ends the call with an error and nothing else (the run
\* goes on, no further tab is created in the call); and a URL that does not
\* normalise ends the call at once, with no browser call and no session.
C32_Step ==
    /\ wk.pc = "idle" /\ wk'.calls # wk.calls /\ wk'.result # "invalid" =>
           IF state.scraperTabId # NoTab
           THEN wk'.pc = "update" /\ wk'.tabId = state.scraperTabId
           ELSE wk'.pc = "create"
    /\ wk.pc # "create" /\ wk'.pc = "create" /\ wk.phase = "reuse" =>
           /\ state'.scraperTabId = NoTab
           /\ wk.pc = "remove" \/ wk.old \notin wk.open
    /\ wk.pc \in {"wait", "discard"} /\ wk.phase = "create" /\ wk'.pc # wk.pc =>
           /\ wk'.pc \in {"idle", "wait"}
           /\ wk'.made = wk.made /\ wk'.open = wk.open
           /\ state' = state
           /\ wk'.pc = "idle" =>
                  /\ wk'.result \in {"ready", "thrown"}
                  /\ wk'.result = "ready" => wk.pc = "wait" /\ wk.tabId \in wk.open
    /\ wk'.calls # wk.calls /\ wk'.result = "invalid" =>
           /\ wk'.pc = "idle"
           /\ wk'.made = wk.made /\ wk'.open = wk.open /\ wk'.torn = {}
           /\ state' = state

C34_ExpansionBounded ==
    /\ wk.clicks <= wk.maxIterations
    /\ wk.iteration <= wk.maxIterations
    /\ wk.waits <= wk.maxIterations
    /\ wk.settled = IF wk.pc = "wait" THEN wk.waits - 1 ELSE wk.waits
    /\ wk.pc = "done" =>
           \/ wk.left = "cap" /\ wk.iteration = wk.maxIterations
           \/ wk.left = "no control" /\ ~wk.button
           \/ wk.left = "no increase" /\ wk.count <= wk.previousCount

\* C35: state.retrying is null unless an activation is processing a queue
\* entry at an attempt after the first; when it is not null it names the URL
\* of such an activation, with its attempt (2 <= attempt <= total) and
\* its total, the attempts fixed when the URL was taken up; and it is null
\* while an activation is at the first attempt of its URL.
C35_RetryStateOnlyInRetry ==
    /\ state.retrying # NoRetry =>
           /\ 2 <= state.retrying.attempt
           /\ state.retrying.attempt <= state.retrying.total
           /\ \E i \in Workers :
                  /\ wk[i].pc \in InFlightPcs
                  /\ wk[i].url = state.retrying.url
                  /\ wk[i].attempt = state.retrying.attempt
                  /\ wk[i].attempts = state.retrying.total
    /\ \A i \in Workers :
           wk[i].pc \in InFlightPcs /\ wk[i].attempt = 1 => state.retrying = NoRetry

\* C36: every snapshot that is persisted or broadcast has
\* 0 <= processed <= total and processed + pending = total; a snapshot of
\* the new state is published with every transition of a run (its start,
\* each processed or skipped entry, each retry, a stop request, its
\* finalisation); and processed never decreases from one snapshot to the
\* next while a run is in progress.
C36_Consistent(status) ==
    /\ 0 <= status.processed
    /\ status.processed <= status.total
    /\ status.processed + status.pending = status.total

C36_Transition ==
    \/ state'.isScraping /\ ~state.isScraping
    \/ state'.currentIndex > state.currentIndex
    \/ state'.retrying # NoRetry /\ state'.retrying # state.retrying
    \/ state'.stopRequested /\ ~state.stopRequested

C36_Step ==
    /\ C36_Consistent(stored'.status)
    /\ C36_Transition =>
           /\ stored'.status.isScraping = state'.isScraping
           /\ stored'.status.total = Len(state'.queue)
           /\ stored'.status.processed = Min(state'.currentIndex, Len(state'.queue))
           /\ stored'.status.retrying = state'.retrying
    /\ \A i \in Starts :
           /\ wk'[i].pc \in {"fempty", "fstatus"} /\ wk[i].pc # wk'[i].pc =>
                  /\ stored'.status.total = wk'[i].total
                  /\ stored'.status.processed = wk'[i].processed
           /\ wk[i].pc \in LoopPcs \cup FinalisePcs /\ wk'[i].pc \in LoopPcs \cup FinalisePcs =>
                  stored'.status.processed >= stored.status.processed

C36_StatusSnapshots == [][C36_Step]_vars

\* C37: the code stored in the record equals the token the extractor
\* produced: a letter attached to the numeric id is still in the record.
C37_RecordKeepsToken == wk.pc = "stored" => wk.code = wk.token

\* C38: the error list and the results agree: a record of results has an
\* error exactly when the error list holds an entry under the record's URL,
\* and that entry carries the record's error.
C38_ErrorsMatchResults ==
    \A n \in 1..Len(state.results) :
        LET record == state.results[n]
            entries == {k \in 1..Len(state.errors) : state.errors[k].url = record.url}
        IN  /\ record.error # NoError <=> entries # {}
            /\ \A k \in entries : state.errors[k].message = record.error

\* C39: whenever the controller is idle (the flag is down, no activation of
\* processQueue is unfinished, no request is suspended) the persisted
\* snapshot has isScraping = false, and the final snapshot a run publishes
\* has isScraping = false.
C39_Idle ==
    /\ ~state.isScraping
    /\ \A i \in Starts : wk[i].pc \in {"none", "done"} /\ sh[i].pc \in {"new", "done"}
    /\ \A j \in Stops : ph[j].pc \in {"new", "done"}
    /\ \A k \in Configs : ch[k].pc \in {"new", "done"}

C39_FinalSnapshot(i) ==
    wk'[i].pc \in {"fempty", "fstatus"} /\ wk[i].pc # wk'[i].pc

C39_Step ==
    /\ C39_Idle' => ~stored'.status.isScraping
    /\ \A i \in Starts : C39_FinalSnapshot(i) => ~stored'.status.isScraping

C39_NoStaleRunning == [][C39_Step]_vars

\* C40: a run installed by a startScraping request that was accepted while
\* the previous run was finalising is not clobbered: the reset at the end of
\* the old run's finalisation leaves the new run's queue, results and
\* session as they are; the new run, once over, has a record for every link
\* of its queue; and the old run exports all the records it held when it
\* left the loop.
C40_NoIdleStop == \A j \in Stops : ph[j].pc # "cleanup" /\ ph[j].reply # "idle"

C40_Step ==
    \A i \in Starts :
        /\ wk[i].pc \in {"fempty", "fstatus"} /\ wk'[i].pc = "done" /\ state.isScraping =>
               /\ state'.isScraping
               /\ state'.queue = state.queue
               /\ state'.results = state.results
               /\ state'.scraperTabId = state.scraperTabId
        /\ wk[i].pc = "fcleanup" /\ wk'[i].pc # "fcleanup" /\ C40_NoIdleStop =>
               \/ wk[i].atExit = <<>> /\ wk'[i].pc = "fempty"
               \/ wk'[i].pc = "download" /\ wk'[i].rows = wk[i].atExit
        /\ sh[i].pc = "status" /\ sh'[i].pc = "done" /\ C40_NoIdleStop =>
               /\ state.isScraping
               /\ state.queue # <<>>

C40_NewRunSurvives == [][C40_Step]_vars

====
